---- MODULE Spec2Model ----
(***************************************************************************)
(* garmin-connect-cli: one CLI invocation as a state machine.              *)
(*                                                                         *)
(* The global callback (cli.py main) stores the global options in the      *)
(* process-wide State object and dispatches to one command handler.  The   *)
(* handlers talk to the SDK through GarminClient (client.py), whose every  *)
(* data method first runs ensure_authenticated.  The context command       *)
(* (commands/context.py) is modelled block by block: one action per        *)
(* try/except block, in source order.                                      *)
(***************************************************************************)
EXTENDS Integers, Sequences, FiniteSets, TLC

(***************************************************************************)
(* Python values.  Every value is a tagged record so that values of        *)
(* different Python types can be compared.                                  *)
(***************************************************************************)
Null == [k |-> "null"]
Num(n) == [k |-> "num", n |-> n, d |-> 1]
Str(s) == [k |-> "str", s |-> s]
Dict(f) == [k |-> "dict", d |-> f]
List(l) == [k |-> "list", l |-> l]
EmptyDict == Dict(<<>>)

\* An exception in flight, named after its Python class.
Exc(e) == [k |-> "exc", e |-> e]
IsExc(v) == v.k = "exc"

\* Marker for an operation that has not been invoked.
NotCalled == [k |-> "uncalled"]

\* Python truthiness (the `if x` tests of the handlers).
Truthy(v) ==
    CASE v.k = "null" -> FALSE
      [] v.k = "num" -> v.n # 0
      [] v.k = "str" -> v.s # ""
      [] v.k = "dict" -> DOMAIN v.d # {}
      [] v.k = "list" -> Len(v.l) > 0
      [] OTHER -> TRUE

\* x.get(key): AttributeError on anything that is not a mapping.
Get(v, key) ==
    IF v.k = "dict"
    THEN IF key \in DOMAIN v.d THEN v.d[key] ELSE Null
    ELSE Exc("AttributeError")

\* x.get(key, default)
GetDefault(v, key, default) ==
    IF v.k = "dict"
    THEN IF key \in DOMAIN v.d THEN v.d[key] ELSE default
    ELSE Exc("AttributeError")

\* `key in x`: TypeError on None and on numbers.
In(key, v) ==
    CASE v.k = "dict" -> key \in DOMAIN v.d
      [] v.k = "list" -> \E i \in 1..Len(v.l) : v.l[i] = Str(key)
      [] OTHER -> FALSE
InRaises(v) == v.k \in {"null", "num"}

\* x / c on numbers (true division), TypeError otherwise.
Div(v, c) ==
    IF v.k = "num" THEN [k |-> "num", n |-> v.n, d |-> v.d * c]
    ELSE Exc("TypeError")

\* d[key] = value on a Python dict.
Put(dict, key, value) == (key :> value) @@ dict

\* The first exception among the evaluated operands, in evaluation order.
RECURSIVE FirstExc(_)
FirstExc(vs) ==
    IF vs = <<>> THEN Null
    ELSE IF IsExc(Head(vs)) THEN Head(vs)
    ELSE FirstExc(Tail(vs))

(***************************************************************************)
(* typer / click exit handling.                                            *)
(***************************************************************************)
EXIT_SUCCESS == 0
EXIT_ERROR == 1
EXIT_AUTH_ERROR == 2

\* typer.Exit(2) as raised by ensure_authenticated.
ExitAuth == Exc("Exit(2)")

\* Exit status the CLI runner reports for an exception that leaves a handler:
\* Exit(n) gives n, Abort and any other exception give 1.
ExitStatus(x) == IF x.e = "Exit(2)" THEN EXIT_AUTH_ERROR ELSE EXIT_ERROR

\* Faulty variant: `except GarminConnectError`, the SDK's errors alone.
ExceptException_sdk(x) == x.e = "Upstream"

\* `except Exception`: typer.Exit and typer.Abort derive from RuntimeError,
\* so the clause catches them together with SDK and shape errors.
ExceptException(x) ==
    x.e \in {"Exit(2)", "Exit(1)", "Abort", "Upstream", "AttributeError", "TypeError"}

(***************************************************************************)
(* commands/context.py: the bodies of the try blocks, as pure functions of *)
(* what the client call returned (a value) or raised (an Exc).             *)
(***************************************************************************)

\* {target: x.get(source), ...} for a mapping m from target to source key.
Project(v, m) ==
    IF v.k = "dict" THEN Dict([t \in DOMAIN m |-> Get(v, m[t])])
    ELSE Exc("AttributeError")

StatsFields ==
    [totalSteps |-> "totalSteps", totalDistanceMeters |-> "totalDistanceMeters",
     totalKilocalories |-> "totalKilocalories", floorsClimbed |-> "floorsClimbed",
     activeTimeInSeconds |-> "activeTimeInSeconds", minHeartRate |-> "minHeartRate",
     maxHeartRate |-> "maxHeartRate", restingHeartRate |-> "restingHeartRate"]
HeartRateFields ==
    [resting |-> "restingHeartRate", min |-> "minHeartRate", max |-> "maxHeartRate"]
SleepFields ==
    [sleepTimeSeconds |-> "sleepTimeSeconds", deepSleepSeconds |-> "deepSleepSeconds",
     lightSleepSeconds |-> "lightSleepSeconds", remSleepSeconds |-> "remSleepSeconds",
     awakeSleepSeconds |-> "awakeSleepSeconds"]
StressFields ==
    [overallStressLevel |-> "overallStressLevel", restStressLevel |-> "restStressLevel",
     activityStressLevel |-> "activityStressLevel"]

\* get_full_name is evaluated only after profile.get("displayName") succeeded.
NeedsFullName(profile) == ~IsExc(profile) /\ profile.k = "dict"

profile_body(profile, fullName) ==
    IF IsExc(profile) THEN profile
    ELSE IF profile.k # "dict" THEN Exc("AttributeError")
    ELSE IF IsExc(fullName) THEN fullName
    ELSE Dict([displayName |-> Get(profile, "displayName"),
               fullName |-> fullName,
               profileImageUrl |-> Get(profile, "profileImageUrlLarge")])

today_stats_body(summary) ==
    IF IsExc(summary) THEN summary ELSE Project(summary, StatsFields)

heart_rate_body(hr) ==
    IF IsExc(hr) THEN hr ELSE Project(hr, HeartRateFields)

sleep_body(sleep) ==
    IF IsExc(sleep) THEN sleep
    ELSE IF ~Truthy(sleep) THEN Null
    ELSE IF InRaises(sleep) THEN Exc("TypeError")
    ELSE IF ~In("dailySleepDTO", sleep) THEN Null
    ELSE IF sleep.k # "dict" THEN Exc("TypeError")
    ELSE Project(sleep.d["dailySleepDTO"], SleepFields)

body_battery_body(bb) ==
    IF IsExc(bb) THEN bb
    ELSE IF Truthy(bb) /\ bb.k = "list" /\ Len(bb.l) > 0 THEN bb.l[Len(bb.l)]
    ELSE Null

stress_body(stress) ==
    IF IsExc(stress) THEN stress
    ELSE IF Truthy(stress) THEN Project(stress, StressFields)
    ELSE Null

training_status_body(status) ==
    IF IsExc(status) THEN status ELSE Get(status, "trainingStatusPhrase")

training_readiness_body(readiness) ==
    IF IsExc(readiness) THEN readiness ELSE Get(readiness, "readinessScore")

\* The assignments the max-metrics block makes to `training` (as a dict of
\* key to value), or the exception that interrupts it.
max_metrics_body(metrics) ==
    IF IsExc(metrics) THEN metrics
    ELSE IF ~Truthy(metrics) THEN EmptyDict
    ELSE LET generic == GetDefault(metrics, "generic", EmptyDict)
             cycling == GetDefault(metrics, "cycling", EmptyDict)
             running == Get(generic, "vo2MaxValue")
             riding == Get(cycling, "vo2MaxValue")
             raised == FirstExc(<<generic, cycling, running, riding>>)
         IN IF IsExc(raised) THEN raised
            ELSE Dict([vo2max_running |-> running, vo2max_cycling |-> riding])

\* x / 1000 if x else None
Kilos(x) == IF Truthy(x) THEN Div(x, 1000) ELSE Null

body_composition_body(body_comp) ==
    IF IsExc(body_comp) THEN body_comp
    ELSE IF ~Truthy(body_comp) THEN EmptyDict
    ELSE LET weight_g == Get(body_comp, "weight")
             current == IF IsExc(weight_g) THEN weight_g ELSE Kilos(weight_g)
             fat == Get(body_comp, "bodyFat")
             muscle_g == Get(body_comp, "muscleMass")
             muscle == IF IsExc(muscle_g) THEN muscle_g ELSE Kilos(muscle_g)
             raised == FirstExc(<<weight_g, current, fat, muscle_g, muscle>>)
         IN IF IsExc(raised) THEN raised
            ELSE Dict([current_kg |-> current, body_fat_pct |-> fat,
                       muscle_mass_kg |-> muscle])

\* One element of the recent_activities comprehension.
activity_item(a) ==
    IF a.k # "dict" THEN Exc("AttributeError")
    ELSE Dict([activityId |-> Get(a, "activityId"),
               activityName |-> Get(a, "activityName"),
               activityType |-> IF Get(a, "activityType").k = "dict"
                                THEN Get(GetDefault(a, "activityType", EmptyDict), "typeKey")
                                ELSE Get(a, "activityType"),
               distance |-> Get(a, "distance"),
               duration |-> Get(a, "duration"),
               startTimeLocal |-> Get(a, "startTimeLocal"),
               averageHR |-> Get(a, "averageHR"),
               calories |-> Get(a, "calories"),
               elevationGain |-> Get(a, "elevationGain")])

recent_activities_body(activities) ==
    IF IsExc(activities) THEN activities
    ELSE IF activities.k = "list"
    THEN LET items == [i \in 1..Len(activities.l) |-> activity_item(activities.l[i])]
             raised == FirstExc(items)
         IN IF IsExc(raised) THEN raised ELSE List(items)
    ELSE IF activities.k \in {"dict", "str"}
    THEN IF Truthy(activities) THEN Exc("AttributeError") ELSE List(<<>>)
    ELSE Exc("TypeError")

\* What the handler of a try block leaves behind: the body's value, or the
\* fallback of the except clause.
Caught(body, fallback) == IF IsExc(body) THEN fallback ELSE body

\* The exception is not matched by the except clause and leaves the handler.
Escapes(body) == IsExc(body) /\ ~ExceptException(body)

VO2MaxFallback == Dict([vo2max_running |-> Null, vo2max_cycling |-> Null])
WeightFallback ==
    Dict([current_kg |-> Null, body_fat_pct |-> Null, muscle_mass_kg |-> Null])

(***************************************************************************)
(* The SDK boundary: what each operation of garminconnect.Garmin can       *)
(* answer.  Normal(op) is a well-formed payload; Abnormal(op) are the      *)
(* other answers: an exception, null, empty, missing or wrongly typed      *)
(* fields.                                                                 *)
(***************************************************************************)
Bytes(n) == [k |-> "bytes", len |-> n]
Raise == Exc("Upstream")

Normal(op) ==
    CASE op = "get_user_profile" ->
           Dict([displayName |-> Str("ed"), profileImageUrlLarge |-> Str("img"),
                 userProfileId |-> Num(7)])
      [] op = "get_full_name" -> Str("Ed M")
      [] op = "get_user_summary" ->
           Dict([totalSteps |-> Num(9000), restingHeartRate |-> Num(50),
                 privacyProtected |-> Null])
      [] op = "get_heart_rates" ->
           Dict([restingHeartRate |-> Num(50), maxHeartRate |-> Num(150),
                 heartRateValues |-> List(<<>>)])
      [] op = "get_sleep_data" ->
           Dict([dailySleepDTO |-> Dict([sleepTimeSeconds |-> Num(28800),
                                         deepSleepSeconds |-> Num(7200)]),
                 restlessMomentsCount |-> Num(3)])
      [] op = "get_body_battery" ->
           List(<<Dict([charged |-> Num(40)]), Dict([charged |-> Num(60)])>>)
      [] op = "get_stress_data" ->
           Dict([overallStressLevel |-> Num(30), restStressLevel |-> Num(20)])
      [] op = "get_training_status" ->
           Dict([trainingStatusPhrase |-> Str("PRODUCTIVE")])
      [] op = "get_training_readiness" -> Dict([readinessScore |-> Num(80)])
      [] op = "get_max_metrics" ->
           Dict([generic |-> Dict([vo2MaxValue |-> Num(55)]),
                 cycling |-> Dict([vo2MaxValue |-> Num(50)])])
      [] op = "get_body_composition" ->
           Dict([weight |-> Num(70500), bodyFat |-> Num(15),
                 muscleMass |-> Num(30000)])
      [] op = "get_activities" ->
           List(<<Dict([activityId |-> Num(1), activityName |-> Str("Run"),
                        activityType |-> Dict([typeKey |-> Str("running")])]),
                  Dict([activityId |-> Num(2), activityType |-> Str("cycling")])>>)
      [] op = "upload_activity" ->
           Dict([detailedImportResult |->
                   Dict([successes |-> List(<<Dict([internalId |-> Num(99)])>>)])])
      [] op = "download_activity" -> Bytes(3)
      [] op = "add_weigh_in" -> Dict([status |-> Str("ok")])
      [] OTHER -> Null

Abnormal(op) ==
    {Raise} \cup
    CASE op = "get_user_profile" -> {Null, Dict([displayName |-> Str("ed")])}
      [] op = "get_full_name" -> {Null}
      [] op = "get_user_summary" -> {Null, EmptyDict}
      [] op = "get_heart_rates" -> {Null, List(<<>>)}
      [] op = "get_sleep_data" ->
           {Null, Num(1), Dict([dailySleepDTO |-> Null]),
            Dict([restlessMomentsCount |-> Num(3)])}
      [] op = "get_body_battery" -> {Null, List(<<>>), Dict([charged |-> Num(1)])}
      [] op = "get_stress_data" -> {EmptyDict, List(<<Num(1)>>)}
      [] op = "get_training_status" -> {Null, EmptyDict}
      [] op = "get_training_readiness" ->
           {Null, List(<<Dict([readinessScore |-> Num(80)])>>)}
      [] op = "get_max_metrics" ->
           {Null, EmptyDict, Dict([generic |-> Dict([vo2MaxValue |-> Num(55)])]),
            Dict([generic |-> Dict([vo2MaxValue |-> Num(55)]), cycling |-> Null])}
      [] op = "get_body_composition" ->
           {Null, EmptyDict, Dict([weight |-> Num(0), bodyFat |-> Num(15)]),
            Dict([weight |-> Num(70500), muscleMass |-> Str("n/a")])}
      [] op = "get_activities" -> {Null, List(<<>>), List(<<Null>>)}
      [] op = "upload_activity" ->
           {Null, EmptyDict,
            Dict([detailedImportResult |-> Dict([successes |-> List(<<>>)])])}
      [] op = "download_activity" -> {Bytes(0)}
      [] op = "add_weigh_in" -> {Null}
      [] OTHER -> {}

Outcomes(op) == {Normal(op)} \cup Abnormal(op)

ContextOps ==
    {"get_user_profile", "get_full_name", "get_user_summary", "get_heart_rates",
     "get_sleep_data", "get_body_battery", "get_stress_data", "get_training_status",
     "get_training_readiness", "get_max_metrics", "get_body_composition",
     "get_activities"}
MutationOps ==
    {"delete_activity", "upload_activity", "download_activity", "add_weigh_in",
     "delete_weigh_in", "delete_weigh_ins"}
DeleteOps == {"delete_activity", "delete_weigh_in", "delete_weigh_ins"}
ListOps == {"get_activities_by_date"}
\* GarminClient.login and the MFA prompt it may call back.
AuthOps == {"login", "mfa_callback"}
Ops == ContextOps \cup MutationOps \cup ListOps \cup AuthOps

\* At most MaxFaults SDK answers of one invocation are abnormal.
MaxFaults == 2

Formats == {"json", "jsonl", "csv", "tsv", "human"}

(***************************************************************************)
(* State of one invocation.                                                *)
(***************************************************************************)
VARIABLES
    pc,         \* position: "main", a block of the running handler, or "done"
    state,      \* core.state, the process-wide option object
    opts,       \* the command and its own options, as parsed by the framework
    tokens,     \* token store in the directory of the command's client
    result,     \* context: the `result` dict
    local,      \* context: the section dict under construction
    calls,      \* GarminClient method -> number of invocations by the handler
    sdk,        \* SDK operation -> number of invocations by GarminClient
    loads,      \* number of token loads (Garmin().login(token_dir))
    upstream,   \* GarminClient method -> what its last invocation gave the handler
    faults,     \* number of abnormal SDK answers so far
    answer,     \* reply to the confirmation prompt: "none", "yes", "no"
    out,        \* what has been written to the output stream, in order
    files,      \* files written by the handler, in order
    exit_code,  \* exit status, meaningful once pc = "done"
    argv,       \* the global options as given on the command line
    config,     \* the persisted config.toml: Null (no file) or its tables
    token_dir,  \* token directory the invocation's client read or cleared
    passed,     \* arguments the activity listing passed to the client
    disk,       \* token directory -> the token store in it: "none", "invalid", "valid"
    found       \* what the invocation found at its start: core.state, the token
                \* stores, config.toml, and the command the process ran before

vars == <<pc, state, opts, tokens, result, local, calls, sdk, loads, upstream,
          faults, answer, out, files, exit_code, argv, config, token_dir, passed,
          disk, found>>

\* class State: the defaults of the class attributes.
State ==
    [format |-> "json", fields |-> Null, no_header |-> FALSE, verbose |-> FALSE,
     quiet |-> FALSE, config_path |-> Null, profile |-> Null]

\* No global option given.
NoOptions ==
    [format |-> "unset", fields |-> Null, no_header |-> FALSE, profile |-> Null,
     verbose |-> FALSE, quiet |-> FALSE]

\* A fresh process, before the persisted configuration is looked at.
Fresh ==
    /\ pc = "main"
    /\ state = State
    /\ opts = [cmd |-> "none"]
    /\ tokens \in {"none", "invalid", "valid"}
    /\ result = <<>>
    /\ local = <<>>
    /\ calls = [o \in Ops |-> 0]
    /\ sdk = [o \in Ops |-> 0]
    /\ loads = 0
    /\ upstream = [o \in Ops |-> NotCalled]
    /\ faults = 0
    /\ answer = "none"
    /\ out = <<>>
    /\ files = <<>>
    /\ exit_code = EXIT_SUCCESS
    /\ argv = NoOptions
    /\ token_dir = <<>>
    /\ passed = NotCalled

(***************************************************************************)
(* config.py                                                               *)
(***************************************************************************)
\* get_token_dir(profile): the path, as its components below the config dir.
get_token_dir(profile) ==
    IF profile.k = "str" /\ profile.s # "" THEN <<"tokens", profile.s>> ELSE <<"tokens">>

\* --profile values: absent (the default profile) or a name.
ProfileChoices == {Null, Str("work")}
TokenDirs == {get_token_dir(profile) : profile \in ProfileChoices}

\* Every profile's token store is in the condition of the client's.
SameStores == disk = [dir \in TokenDirs |-> tokens]

\* The persistent things as they are now, and the command that ran.
Found == [state |-> state, disk |-> disk, config |-> config, ran |-> opts]

\* No config.toml on disk.
Init == Fresh /\ config = Null /\ SameStores /\ found = Found

\* Config.load: the [defaults] table of config.toml, DefaultsConfig() for
\* what the file does not say.
Config_load(file) ==
    LET table == IF file.k = "dict" /\ "defaults" \in DOMAIN file.d
                 THEN file.d.defaults ELSE EmptyDict
    IN [format |-> GetDefault(table, "format", Str("json")),
        limit |-> GetDefault(table, "limit", Num(30))]

(***************************************************************************)
(* client.py                                                               *)
(***************************************************************************)
\* GarminClient.is_authenticated: the token file exists.
is_authenticated == tokens # "none"

\* Faulty variant: a token file that fails to load is taken as good.
ensure_authenticated_unloaded == IF ~is_authenticated THEN ExitAuth ELSE Null

\* GarminClient.ensure_authenticated: Null when the tokens were loaded, else
\* the typer.Exit(2) it raises.
ensure_authenticated ==
    IF ~is_authenticated THEN ExitAuth
    ELSE IF tokens = "invalid" THEN ExitAuth
    ELSE Null

\* A data method of GarminClient: ensure_authenticated, then the SDK operation,
\* which answers o.
ClientCall(o) == IF IsExc(ensure_authenticated) THEN ensure_authenticated ELSE o

\* The SDK answer o is one the operation can give within the fault budget; the
\* SDK gives no answer when it is not reached.
Answers(op, o, budget) ==
    /\ o \in Outcomes(op)
    /\ IsExc(ensure_authenticated) => o = Normal(op)
    /\ o # Normal(op) => budget < MaxFaults

Fault(op, o) == IF o # Normal(op) THEN 1 ELSE 0

\* Faulty variant: a method that raised is invoked a second time.
Invoke_retried(seen) ==
    /\ calls' = [o \in Ops |-> IF o \in DOMAIN seen
                                THEN calls[o] + (IF IsExc(seen[o]) THEN 2 ELSE 1)
                                ELSE calls[o]]
    /\ sdk' = [o \in Ops |-> IF o \in DOMAIN seen /\ ~IsExc(ensure_authenticated)
                              THEN sdk[o] + 1 ELSE sdk[o]]
    /\ loads' = loads + (IF is_authenticated THEN Cardinality(DOMAIN seen) ELSE 0)
    /\ upstream' = [o \in Ops |-> IF o \in DOMAIN seen THEN seen[o] ELSE upstream[o]]
    /\ token_dir' = get_token_dir(state.profile)

\* Bookkeeping of the handler invoking the methods in `seen` (method -> what
\* the handler got back), each once.
Invoke(seen) ==
    /\ calls' = [o \in Ops |-> IF o \in DOMAIN seen THEN calls[o] + 1 ELSE calls[o]]
    /\ sdk' = [o \in Ops |-> IF o \in DOMAIN seen /\ ~IsExc(ensure_authenticated)
                              THEN sdk[o] + 1 ELSE sdk[o]]
    /\ loads' = loads + (IF is_authenticated THEN Cardinality(DOMAIN seen) ELSE 0)
    /\ upstream' = [o \in Ops |-> IF o \in DOMAIN seen THEN seen[o] ELSE upstream[o]]
    /\ token_dir' = get_token_dir(state.profile)

(***************************************************************************)
(* core.py and the output layer                                            *)
(***************************************************************************)
\* output.output(data, format, fields, no_header): one write of the payload
\* in the given encoding.
output(data, format, fields, no_header) ==
    [kind |-> "data", format |-> format, fields |-> fields,
     no_header |-> no_header, data |-> data]

\* output.emit_result: the summary alone for human, the payload otherwise.
output_emit_result(data, human_msg, format, fields, no_header) ==
    IF format = "human" THEN [kind |-> "text", text |-> human_msg]
    ELSE output(data, format, fields, no_header)

\* A dict that keeps its insertion order: pairs is the sequence of
\* <<key, value>> in that order.
ODict(pairs) ==
    [k |-> "dict",
     d |-> [key \in {pairs[i][1] : i \in 1..Len(pairs)} |->
              (CHOOSE pair \in {pairs[i] : i \in 1..Len(pairs)} : pair[1] = key)[2]],
     keys |-> [i \in 1..Len(pairs) |-> pairs[i][1]]]

\* A string given by its characters.
Text(chars) == [k |-> "text", chars |-> chars]

\* Some enumeration of a finite set.
RECURSIVE SetToSeq(_)
SetToSeq(S) ==
    IF S = {} THEN <<>>
    ELSE LET x == CHOOSE y \in S : TRUE IN <<x>> \o SetToSeq(S \ {x})

\* The keys of a record, in insertion order where the model tracks it.
Keys(r) == IF "keys" \in DOMAIN r THEN r.keys ELSE SetToSeq(DOMAIN r.d)

IsSelected(fields, key) ==
    fields.k = "null" \/ \E i \in 1..Len(fields.l) : fields.l[i] = key

\* Field selection on one record: top-level keys only, record order kept.
select(r, fields) ==
    IF r.k # "dict" THEN r
    ELSE LET kept == SelectSeq(Keys(r), LAMBDA key : IsSelected(fields, key))
         IN [k |-> "dict",
             d |-> [key \in {kept[i] : i \in 1..Len(kept)} |-> r.d[key]],
             keys |-> kept]

\* The records of a RecordSet: the sequence itself, or the single Record.
records(data) == IF data.k = "list" THEN data.l ELSE <<data>>

\* json: the document, as the value a JSON parser reads back from it.
json_document(data, fields) ==
    IF data.k = "list"
    THEN List([i \in 1..Len(data.l) |-> select(data.l[i], fields)])
    ELSE select(data, fields)

\* jsonl: the lines, each as the value a JSON parser reads back from it.
jsonl_lines(data, fields) ==
    [i \in 1..Len(records(data)) |-> select(records(data)[i], fields)]

\* csv/tsv: the union of the selected keys, in first-seen order.
RECURSIVE columns_from(_, _, _)
columns_from(rs, fields, seen) ==
    IF rs = <<>> THEN seen
    ELSE LET present == {seen[i] : i \in 1..Len(seen)}
             fresh == SelectSeq(Keys(select(Head(rs), fields)),
                                LAMBDA key : key \notin present)
         IN columns_from(Tail(rs), fields, seen \o fresh)
columns(data, fields) == columns_from(records(data), fields, <<>>)

\* The characters of a cell: none for null, those of a string, and a
\* string representation (no newline in it) for anything else.
cell_text(v) ==
    CASE v.k = "null" -> <<>>
      [] v.k = "text" -> v.chars
      [] v.k = "str" -> <<v.s>>
      [] OTHER -> <<v.k>>
\* A cell: the value it renders and its characters; empty for a missing key.
cell(r, column) ==
    IF column \in DOMAIN r.d
    THEN [of |-> r.d[column], chars |-> cell_text(r.d[column])]
    ELSE [of |-> Null, chars |-> <<>>]

\* csv/tsv: the rows, each the sequence of its cells, header excluded.
table_rows(data, fields) ==
    LET cols == columns(data, fields)
    IN [i \in 1..Len(records(data)) |->
          [c \in 1..Len(cols) |-> cell(records(data)[i], cols[c])]]

RECURSIVE Count(_, _)
Count(seq, x) ==
    IF seq = <<>> THEN 0
    ELSE (IF Head(seq) = x THEN 1 ELSE 0) + Count(Tail(seq), x)
RECURSIVE Sum(_)
Sum(ns) == IF ns = <<>> THEN 0 ELSE Head(ns) + Sum(Tail(ns))

\* Physical lines one row takes: csv quotes a cell holding a newline and
\* keeps the newline; tsv escapes or strips it.
row_lines(row, format) ==
    IF format = "csv"
    THEN 1 + Sum([c \in 1..Len(row) |-> Count(row[c].chars, "\n")])
    ELSE 1

\* Number of physical lines of a rendering.
line_count(data, format, fields, no_header) ==
    CASE format = "jsonl" -> Len(jsonl_lines(data, fields))
      [] format \in {"csv", "tsv"} ->
           (IF no_header THEN 0 ELSE 1)
           + Sum([i \in 1..Len(table_rows(data, fields)) |->
                    row_lines(table_rows(data, fields)[i], format)])
      [] OTHER -> 1

\* Faulty variant: the field list is not handed on.
emit_unselected(data) == output(data, state.format, Null, state.no_header)
\* Faulty variant: the format is not handed on.
emit_json(data) == output(data, "json", state.fields, state.no_header)
\* Faulty variant: the header flag is not handed on.
emit_with_header(data) == output(data, state.format, state.fields, FALSE)
\* core.emit
emit(data) == output(data, state.format, state.fields, state.no_header)

\* Faulty variant: the payload is written whatever the format.
emit_result_payload(data, human_msg) == emit(data)

\* core.emit_result
emit_result(data, human_msg) ==
    output_emit_result(data, human_msg, state.format, state.fields, state.no_header)

\* An exception leaves the handler: the runner turns it into the exit status.
Propagate(x) ==
    /\ pc' = "done"
    /\ exit_code' = ExitStatus(x)

(***************************************************************************)
(* cli.py main: the global callback, then dispatch to the command.         *)
(***************************************************************************)
\* --focus values: absent, or the string given, as its comma-separated parts.
FocusStr(parts) == [k |-> "str", parts |-> parts]
FocusChoices ==
    {Null, FocusStr(<<"">>), FocusStr(<<"stats">>), FocusStr(<<"health", "training">>),
     FocusStr(<<"weight", "activities">>), FocusStr(<<"sleep">>)}

\* `if focus`: None and the empty string are falsy.
FocusGiven(focus) == focus.k = "str" /\ focus.parts # <<"">>
\* set(focus.split(","))
focus_areas(focus) == {focus.parts[i] : i \in 1..Len(focus.parts)}
\* Faulty variant: the focus list is not consulted.
InFocus_ignored(focus, name) == TRUE
\* focus_areas is None or name in focus_areas
InFocus(focus, name) == ~FocusGiven(focus) \/ name \in focus_areas(focus)

\* Pass-through commands: emit(client.<op>(...)).
FetchCommands ==
    [athlete |-> "get_user_profile", athlete_stats |-> "get_user_summary",
     health_sleep |-> "get_sleep_data", health_heart_rate |-> "get_heart_rates",
     health_stress |-> "get_stress_data", health_body_battery |-> "get_body_battery",
     training_status |-> "get_training_status",
     training_readiness |-> "get_training_readiness",
     training_vo2max |-> "get_max_metrics", weight_body_comp |-> "get_body_composition"]

ContextOptions ==
    [cmd : {"context"}, include_health : BOOLEAN, include_stats : BOOLEAN,
     include_training : BOOLEAN, include_weight : BOOLEAN, focus : FocusChoices]
FetchOptions == [cmd : DOMAIN FetchCommands]
DeleteOptions ==
    [cmd : {"activities_delete", "weight_delete", "weight_delete_date"},
     target : {Num(42)}, force : BOOLEAN]
UploadOptions == [cmd : {"activities_upload"}, file_path : {Str("run.fit")},
                  exists : BOOLEAN]
DownloadOptions == [cmd : {"activities_download"}, activity_id : {Num(42)},
                    output_path : {Null, Str("a.tcx")}]
LogOptions ==
    [cmd : {"weight_log"}, weight : {Num(70)}, date_str : {Null, Str("2025-01-01")}]

Commands ==
    ContextOptions \cup FetchOptions \cup DeleteOptions \cup UploadOptions
    \cup DownloadOptions \cup LogOptions

\* <<--verbose, --quiet>>.  --verbose alone only adds warnings on stderr.
VerbosityChoices == {<<FALSE, FALSE>>, <<TRUE, TRUE>>}

\* A --fields value: the string as its chunks, each a field name or ",".
FieldsStr(chunks) == [k |-> "str", chunks |-> chunks]

\* str.split(","), on a string in which no two names are adjacent.
RECURSIVE Split(_)
Split(chunks) ==
    IF chunks = <<>> THEN <<"">>
    ELSE LET rest == Split(Tail(chunks))
         IN IF Head(chunks) = "," THEN <<"">> \o rest
            ELSE <<Head(chunks)>> \o Tail(rest)

\* Faulty variant: the value is taken as one name.
parse_fields_whole(fields) ==
    IF fields.k = "str" /\ fields.chunks # <<>> THEN List(<<fields.chunks[1]>>) ELSE Null
\* Faulty variant: without --fields the attribute is left as it is.
parse_fields_kept(fields) ==
    IF fields.k = "str" /\ fields.chunks # <<>> THEN List(Split(fields.chunks))
    ELSE state.fields
\* fields.split(",") if fields else None
parse_fields(fields) ==
    IF fields.k = "str" /\ fields.chunks # <<>> THEN List(Split(fields.chunks)) ELSE Null

\* Faulty variant: without --format the summary format is taken.
option_format_human(format) == IF format = "unset" THEN "human" ELSE format
\* The --format option: OutputFormat.json when not given.
option_format(format) == IF format = "unset" THEN "json" ELSE format

\* The token directory of the client the command builds: the auth commands
\* from their own --profile (get_client(config, profile)), the others from
\* the global one (get_client(config, state.profile)).
AuthCommands == {"auth_login", "auth_logout", "auth_status"}
client_dir(command, profile) ==
    IF command.cmd \in AuthCommands THEN get_token_dir(command.profile)
    ELSE get_token_dir(profile)

\* Faulty variant: the two flags are not compared.
Conflicting_never(verbose, quiet) == FALSE
\* `if verbose and quiet`
Conflicting(verbose, quiet) == verbose /\ quiet

\* cli.main, for an invocation whose global options and command are drawn
\* from the given sets.
Callback(formats, fieldses, headers, profiles, commands) ==
    /\ pc = "main"
    /\ \E format \in formats, fields \in fieldses, no_header \in headers,
          profile \in profiles, verbosity \in VerbosityChoices, command \in commands :
         LET verbose == verbosity[1]
             quiet == verbosity[2]
         IN
         /\ argv' = [format |-> format, fields |-> fields, no_header |-> no_header,
                     profile |-> profile, verbose |-> verbose, quiet |-> quiet]
         /\ IF Conflicting(verbose, quiet)
            THEN /\ pc' = "done"
                 /\ exit_code' = EXIT_ERROR
                 /\ UNCHANGED <<state, opts, tokens>>
            ELSE /\ tokens' = disk[client_dir(command, profile)]
                 /\ state' = [state EXCEPT !.format = option_format(format),
                                           !.fields = parse_fields(fields),
                                           !.no_header = no_header, !.verbose = verbose,
                                           !.quiet = quiet, !.config_path = Null,
                                           !.profile = profile]
                 /\ opts' = command
                 /\ pc' = IF command.cmd = "context" THEN "context.profile"
                          ELSE command.cmd
                 /\ UNCHANGED exit_code
    /\ UNCHANGED <<disk, found, config, passed, token_dir, result, local, calls, sdk,
                   loads, upstream, faults, answer, out, files>>

\* Every data command under every format, the other global options not given.
main == Callback(Formats, {Null}, {FALSE}, {Null}, Commands)

(***************************************************************************)
(* commands/context.py: the handler, one action per try block.             *)
(***************************************************************************)
\* Faulty variant: --no-stats is not consulted.
stats_enabled_unflagged == InFocus(opts.focus, "stats")
stats_enabled == opts.include_stats /\ InFocus(opts.focus, "stats")
health_enabled == opts.include_health /\ InFocus(opts.focus, "health")
training_enabled == opts.include_training /\ InFocus(opts.focus, "training")
weight_enabled == opts.include_weight /\ InFocus(opts.focus, "weight")
activities_enabled == InFocus(opts.focus, "activities")

\* The block that runs next, skipping the sections whose `if` is false.
AfterWeight == IF activities_enabled THEN "context.activities" ELSE "context.emit"
AfterTraining == IF weight_enabled THEN "context.weight" ELSE AfterWeight
AfterHealth == IF training_enabled THEN "context.training_status" ELSE AfterTraining
\* Faulty variant: the health section is passed over.
AfterStats_past_health == AfterHealth
AfterStats == IF health_enabled THEN "context.heart_rate" ELSE AfterHealth
AfterProfile == IF stats_enabled THEN "context.stats" ELSE AfterStats

\* A try/except-Exception block around one client call: Body is the value
\* the try body computes, NewLocal and NewResult the section dict and the
\* result dict after the block.
TryBlock(at, op, Body(_), NewLocal(_), NewResult(_), next) ==
    /\ pc = at
    /\ \E o \in Outcomes(op) :
         LET body == Body(ClientCall(o))
         IN /\ Answers(op, o, faults)
            /\ faults' = faults + Fault(op, o)
            /\ Invoke(op :> ClientCall(o))
            /\ IF Escapes(body)
               THEN /\ Propagate(body)
                    /\ UNCHANGED <<result, local>>
               ELSE /\ local' = NewLocal(body)
                    /\ result' = NewResult(body)
                    /\ pc' = next
                    /\ UNCHANGED exit_code
    /\ UNCHANGED <<argv, disk, found, config, passed, state, opts, tokens, answer, out, files>>

\* Faulty variant: the except clause records nothing.
profile_result_pass(body) ==
    IF IsExc(body) THEN result ELSE Put(result, "profile", body)
profile_result(body) == Put(result, "profile", Caught(body, Null))

context_profile ==
    /\ pc = "context.profile"
    /\ \E p \in Outcomes("get_user_profile"), n \in Outcomes("get_full_name") :
         LET profile == ClientCall(p)
             fullName == ClientCall(n)
             named == NeedsFullName(profile)
             body == profile_body(profile, fullName)
             seen == IF named
                     THEN [get_user_profile |-> profile, get_full_name |-> fullName]
                     ELSE [get_user_profile |-> profile]
         IN /\ Answers("get_user_profile", p, faults)
            /\ IF named
               THEN Answers("get_full_name", n, faults + Fault("get_user_profile", p))
               ELSE n = Normal("get_full_name")
            /\ faults' = faults + Fault("get_user_profile", p)
                         + (IF named THEN Fault("get_full_name", n) ELSE 0)
            /\ Invoke(seen)
            /\ IF Escapes(body)
               THEN /\ Propagate(body)
                    /\ UNCHANGED result
               ELSE /\ result' = profile_result(body)
                    /\ pc' = AfterProfile
                    /\ UNCHANGED exit_code
    /\ UNCHANGED <<argv, disk, found, config, passed, state, opts, tokens, local, answer, out, files>>

\* Faulty variant: the except clause rebinds `result` to a fresh dict.
stats_result_rebinds(body) ==
    IF IsExc(body) THEN [today_stats |-> Null] ELSE Put(result, "today_stats", body)
stats_result(body) == Put(result, "today_stats", Caught(body, Null))
SameLocal(body) == local
SameResult(body) == result

context_stats ==
    TryBlock("context.stats", "get_user_summary", today_stats_body, SameLocal, stats_result,
             AfterStats)

heart_rate_local(body) == Put(<<>>, "heart_rate", Caught(body, Null))
sleep_local(body) == Put(local, "sleep", Caught(body, Null))
body_battery_local(body) == Put(local, "body_battery", Caught(body, Null))
stress_local(body) == Put(local, "stress", Caught(body, Null))
health_result(body) == Put(result, "health", Dict(stress_local(body)))

context_heart_rate ==
    TryBlock("context.heart_rate", "get_heart_rates", heart_rate_body, heart_rate_local,
             SameResult, "context.sleep")
context_sleep ==
    TryBlock("context.sleep", "get_sleep_data", sleep_body, sleep_local, SameResult,
             "context.body_battery")
context_body_battery ==
    TryBlock("context.body_battery", "get_body_battery", body_battery_body,
             body_battery_local, SameResult, "context.stress")
context_stress ==
    TryBlock("context.stress", "get_stress_data", stress_body, stress_local, health_result,
             AfterHealth)

training_status_local(body) == Put(<<>>, "status", Caught(body, Null))
training_readiness_local(body) == Put(local, "readiness", Caught(body, Null))
max_metrics_local(body) == Caught(body, VO2MaxFallback).d @@ local
training_result(body) == Put(result, "training", Dict(max_metrics_local(body)))

context_training_status ==
    TryBlock("context.training_status", "get_training_status", training_status_body,
             training_status_local, SameResult, "context.training_readiness")
context_training_readiness ==
    TryBlock("context.training_readiness", "get_training_readiness", training_readiness_body,
             training_readiness_local, SameResult, "context.max_metrics")
context_max_metrics ==
    TryBlock("context.max_metrics", "get_max_metrics", max_metrics_body, max_metrics_local,
             training_result, AfterTraining)

\* Faulty variant: the except clause resets current_kg alone.
weight_local_partial(body) == Caught(body, Dict([current_kg |-> Null])).d
weight_local(body) == Caught(body, WeightFallback).d
weight_result(body) == Put(result, "weight", Dict(weight_local(body)))

context_weight ==
    TryBlock("context.weight", "get_body_composition", body_composition_body, weight_local,
             weight_result, AfterWeight)

\* Faulty variant: the except clause records nothing.
activities_result_pass(body) ==
    IF IsExc(body) THEN result ELSE Put(result, "recent_activities", body)
activities_result(body) == Put(result, "recent_activities", Caught(body, List(<<>>)))

context_activities ==
    TryBlock("context.activities", "get_activities", recent_activities_body, SameLocal,
             activities_result, "context.emit")

context_emit ==
    /\ pc = "context.emit"
    /\ out' = Append(out, emit(Dict(result)))
    /\ pc' = "done"
    /\ UNCHANGED <<argv, disk, found, config, passed, token_dir, state, opts, tokens, result, local,
                   calls, sdk, loads, upstream, faults, answer, files, exit_code>>

context ==
    \/ context_profile
    \/ context_stats
    \/ context_heart_rate
    \/ context_sleep
    \/ context_body_battery
    \/ context_stress
    \/ context_training_status
    \/ context_training_readiness
    \/ context_max_metrics
    \/ context_weight
    \/ context_activities
    \/ context_emit

(***************************************************************************)
(* Commands built with @with_client: the wrapper makes the client, the     *)
(* handler runs to its end in one step.                                    *)
(***************************************************************************)
\* An f-string, as the sequence of its literal and interpolated parts.
Format(parts) == [k |-> "fstr", parts |-> parts]

\* date.today().isoformat()
Today == Str("today")

\* athlete, health, training and weight read commands: emit(client.<op>(...)).
fetch_command ==
    /\ pc \in DOMAIN FetchCommands
    /\ \E o \in Outcomes(FetchCommands[pc]) :
         LET op == FetchCommands[pc]
             data == ClientCall(o)
         IN /\ Answers(op, o, faults)
            /\ faults' = faults + Fault(op, o)
            /\ Invoke(op :> data)
            /\ IF IsExc(data)
               THEN /\ Propagate(data)
                    /\ UNCHANGED out
               ELSE /\ out' = Append(out, emit(data))
                    /\ pc' = "done"
                    /\ UNCHANGED exit_code
    /\ UNCHANGED <<argv, disk, found, config, passed, state, opts, tokens, result, local, answer, files>>

\* The prompt is shown only without --force.
Prompted == ~opts.force
\* Faulty variant: the reply is not looked at.
Declined_never(reply) == FALSE
\* `if not force: confirm = typer.confirm(...); if not confirm: raise Abort`
Declined(reply) == Prompted /\ reply = "no"

\* The three delete handlers: confirmation, the client call, emit_result.
DeleteCommand(cmd, op, data, human_msg) ==
    /\ pc = cmd
    /\ \E reply \in {"yes", "no"}, o \in Outcomes(op) :
         /\ ~Prompted => reply = "yes"
         /\ answer' = IF Prompted THEN reply ELSE answer
         /\ IF Declined(reply)
            THEN /\ o = Normal(op)
                 /\ Propagate(Exc("Abort"))
                 /\ UNCHANGED <<calls, sdk, loads, upstream, token_dir, faults, out>>
            ELSE LET got == ClientCall(o)
                 IN /\ Answers(op, o, faults)
                    /\ faults' = faults + Fault(op, o)
                    /\ Invoke(op :> got)
                    /\ IF IsExc(got)
                       THEN /\ Propagate(got)
                            /\ UNCHANGED out
                       ELSE /\ out' = Append(out, emit_result(data, human_msg))
                            /\ pc' = "done"
                            /\ UNCHANGED exit_code
    /\ UNCHANGED <<argv, disk, found, config, passed, state, opts, tokens, result, local, files>>

delete_activity ==
    DeleteCommand("activities_delete", "delete_activity",
                  Dict([activity_id |-> opts.target]),
                  Format(<<Str("Activity "), opts.target, Str(" deleted")>>))

delete_weight ==
    DeleteCommand("weight_delete", "delete_weigh_in",
                  Dict([pk |-> opts.target]),
                  Format(<<Str("Weight entry "), opts.target, Str(" deleted")>>))

delete_weights_for_date ==
    DeleteCommand("weight_delete_date", "delete_weigh_ins",
                  Dict([date |-> opts.target]),
                  Format(<<Str("Weight entries for "), opts.target, Str(" deleted")>>))

\* x[0]
First(v) == IF v.k = "list" /\ Len(v.l) > 0 THEN v.l[1] ELSE Exc("TypeError")

\* The activity id quoted in the upload summary.
uploaded_id(response) ==
    LET detailed == GetDefault(response, "detailedImportResult", EmptyDict)
        successes == GetDefault(detailed, "successes", List(<<EmptyDict>>))
        first == First(successes)
        raised == FirstExc(<<detailed, successes>>)
    IN IF IsExc(raised) THEN raised
       ELSE IF ~Truthy(successes) THEN Str("unknown")
       ELSE IF IsExc(first) THEN first
       ELSE GetDefault(first, "internalId", Str("unknown"))

upload_activity ==
    /\ pc = "activities_upload"
    /\ IF ~opts.exists
       THEN /\ Propagate(Exc("Exit(1)"))
            /\ UNCHANGED <<calls, sdk, loads, upstream, token_dir, faults, out>>
       ELSE \E o \in Outcomes("upload_activity") :
              LET response == ClientCall(o)
                  activity_id == IF IsExc(response) THEN response
                                 ELSE uploaded_id(response)
              IN /\ Answers("upload_activity", o, faults)
                 /\ faults' = faults + Fault("upload_activity", o)
                 /\ Invoke("upload_activity" :> response)
                 /\ IF IsExc(activity_id)
                    THEN /\ Propagate(activity_id)
                         /\ UNCHANGED out
                    ELSE /\ out' = Append(out, emit_result(response,
                                     Format(<<Str("Uploaded: activity "), activity_id>>)))
                         /\ pc' = "done"
                         /\ UNCHANGED exit_code
    /\ UNCHANGED <<argv, disk, found, config, passed, state, opts, tokens, result, local, answer, files>>

download_activity ==
    /\ pc = "activities_download"
    /\ \E o \in Outcomes("download_activity") :
         LET data == ClientCall(o)
         IN /\ Answers("download_activity", o, faults)
            /\ faults' = faults + Fault("download_activity", o)
            /\ Invoke("download_activity" :> data)
            /\ IF IsExc(data)
               THEN /\ Propagate(data)
                    /\ UNCHANGED <<out, files>>
               ELSE IF Truthy(opts.output_path)
               THEN /\ files' = Append(files, [path |-> opts.output_path, data |-> data])
                    /\ out' = Append(out, emit_result(
                                 Dict([path |-> opts.output_path, bytes |-> Num(data.len)]),
                                 Format(<<Str("Downloaded to "), opts.output_path>>)))
                    /\ pc' = "done"
                    /\ UNCHANGED exit_code
               ELSE /\ out' = Append(out, [kind |-> "raw", data |-> data])
                    /\ pc' = "done"
                    /\ UNCHANGED <<files, exit_code>>
    /\ UNCHANGED <<argv, disk, found, config, passed, state, opts, tokens, result, local, answer>>

log_weight ==
    /\ pc = "weight_log"
    /\ \E o \in Outcomes("add_weigh_in") :
         LET target_date == IF Truthy(opts.date_str) THEN opts.date_str ELSE Today
             got == ClientCall(o)
             data == IF Truthy(got) THEN got
                     ELSE Dict([weight |-> opts.weight, date |-> target_date])
         IN /\ Answers("add_weigh_in", o, faults)
            /\ faults' = faults + Fault("add_weigh_in", o)
            /\ Invoke("add_weigh_in" :> got)
            /\ IF IsExc(got)
               THEN /\ Propagate(got)
                    /\ UNCHANGED out
               ELSE /\ out' = Append(out, emit_result(data,
                                Format(<<Str("Weight "), opts.weight,
                                         Str(" kg logged for "), target_date>>)))
                    /\ pc' = "done"
                    /\ UNCHANGED exit_code
    /\ UNCHANGED <<argv, disk, found, config, passed, state, opts, tokens, result, local, answer, files>>

(***************************************************************************)
(* commands/activities.py: list                                            *)
(***************************************************************************)
\* Defaults of --limit and --start.
DEFAULT_LIMIT == 30
DEFAULT_START == 0

\* Records the upstream listing can hold: all keys, a key missing, and a
\* name with a separator, a newline and a tab in it, keys in another order.
Run == ODict(<< <<"activityId", Num(1)>>, <<"activityName", Str("Run")>> >>)
Bare == ODict(<< <<"activityId", Num(2)>> >>)
Noted ==
    ODict(<< <<"activityName", Text(<<"a", ",", "b", "\n", "c", "\t", "d">>)>>,
             <<"activityId", Num(3)>>, <<"distance", Null>> >>)
Activities == {Run, Bare, Noted}

\* The upstream listing holds at most MaxActivities records.
MaxActivities == 2
ActivityLists == UNION {[1..n -> Activities] : n \in 0..MaxActivities}
Listed == {List(l) : l \in ActivityLists} \cup {Raise, Null}

ListOptions ==
    [cmd : {"activities_list"}, limit : {Null, Num(0), Num(1), Num(2)},
     start : {Null, Num(1)}, after : {Null, Str("2025-01-01")},
     before : {Null, Str("2025-02-01")}]

\* (date.today() - timedelta(days=365)).isoformat()
YearAgo == Str("a year ago")

\* Faulty variant: the slice keeps one record more.
Slice_inclusive(v, n) ==
    IF v.k # "list" THEN Exc("TypeError")
    ELSE List(SubSeq(v.l, 1, IF n + 1 < Len(v.l) THEN n + 1 ELSE Len(v.l)))
\* x[:n]
Slice(v, n) ==
    IF v.k # "list" THEN Exc("TypeError")
    ELSE IF n >= 0 THEN List(SubSeq(v.l, 1, IF n < Len(v.l) THEN n ELSE Len(v.l)))
    ELSE List(SubSeq(v.l, 1, IF Len(v.l) + n > 0 THEN Len(v.l) + n ELSE 0))

\* client.get_activities(start=start, limit=limit)
list_arguments(start, limit) ==
    [op |-> "get_activities", start |-> start, limit |-> limit]

list_activities ==
    /\ pc = "activities_list"
    /\ \E o \in Listed :
         LET limit == IF opts.limit.k = "null" THEN Num(DEFAULT_LIMIT) ELSE opts.limit
             start == IF opts.start.k = "null" THEN Num(DEFAULT_START) ELSE opts.start
             dated == Truthy(opts.after) \/ Truthy(opts.before)
             end_date == IF Truthy(opts.before) THEN opts.before ELSE Today
             start_date == IF Truthy(opts.after) THEN opts.after ELSE YearAgo
             got == ClientCall(o)
             activities == IF IsExc(got) \/ ~dated THEN got ELSE Slice(got, limit.n)
         IN /\ IsExc(ensure_authenticated) => o = List(<<>>)
            /\ Invoke((IF dated THEN "get_activities_by_date" ELSE "get_activities")
                      :> got)
            /\ passed' = IF dated
                         THEN [op |-> "get_activities_by_date", start_date |-> start_date,
                               end_date |-> end_date, activity_type |-> Null]
                         ELSE list_arguments(start, limit)
            /\ IF IsExc(activities)
               THEN /\ Propagate(activities)
                    /\ UNCHANGED out
               ELSE /\ out' = Append(out, emit(activities))
                    /\ pc' = "done"
                    /\ UNCHANGED exit_code
    /\ UNCHANGED <<argv, disk, found, config, state, opts, tokens, result, local, faults, answer, files>>

Next ==
    \/ main
    \/ context
    \/ fetch_command
    \/ delete_activity
    \/ delete_weight
    \/ delete_weights_for_date
    \/ upload_activity
    \/ download_activity
    \/ log_weight

Spec == Init /\ [][Next]_vars

(***************************************************************************)
(* The same program with the global options varied: --format given or not, *)
(* --fields, --no-header, --profile, and a config.toml on disk.            *)
(***************************************************************************)
FormatChoices == Formats \cup {"unset"}
FieldsChoices ==
    {Null, FieldsStr(<<>>), FieldsStr(<<"activityId">>),
     FieldsStr(<<"activityName", ",", "activityId">>),
     FieldsStr(<<"activityId", ",", "pace">>), FieldsStr(<<"pace">>)}

\* config.toml: absent, or with a [defaults] table.
Configs == {Null, Dict([defaults |-> Dict([format |-> Str("csv"), limit |-> Num(1)])])}

InitOptions == Fresh /\ config \in Configs /\ SameStores /\ found = Found

(***************************************************************************)
(* commands/auth.py: login, logout and status build their own client from  *)
(* their own --profile option; status has its own --format option too.     *)
(***************************************************************************)
Bool(b) == [k |-> "bool", b |-> b]
Path(parts) == [k |-> "path", parts |-> parts]

\* The account the credentials (options, environment or prompt) name.
Email == Str("ed@example.com")

AuthOptions ==
    [cmd : {"auth_login", "auth_logout", "auth_status"}, profile : ProfileChoices,
     format : {"unset", "human", "csv"}]

\* config.profiles[name] = ProfileConfig(email); config.save(): the file
\* holds the loaded defaults and every profile.
Config_save(file, name, email) ==
    LET profiles == IF file.k = "dict" /\ "profiles" \in DOMAIN file.d
                    THEN file.d.profiles.d ELSE <<>>
    IN Dict([defaults |-> Dict(Config_load(file)),
             profiles |-> Dict((name.s :> Dict([email |-> email])) @@ profiles)])

\* What the SDK does at the first and at the second login attempt, and
\* whether garth.dump manages to write the tokens.
LoginScripts == [first : {"ok", "mfa", "error"}, second : {"ok", "error"}, dump : BOOLEAN]

\* Faulty variant: the second attempt is made after any failure.
GarminClient_login_again(script, mfa_callback) ==
    IF script.first = "ok"
    THEN [answers |-> <<"ok">>, prompts |-> 0, written |-> script.dump,
          returns |-> script.dump]
    ELSE [answers |-> <<script.first, script.second>>, prompts |-> 1,
          written |-> script.second = "ok" /\ script.dump,
          returns |-> script.second = "ok" /\ script.dump]

\* GarminClient.login: the SDK's answers to the login attempts it made, the
\* number of MFA prompts, whether the tokens were written, and the value
\* returned.
GarminClient_login(script, mfa_callback) ==
    IF script.first = "ok"
    THEN [answers |-> <<"ok">>, prompts |-> 0, written |-> script.dump,
          returns |-> script.dump]
    ELSE IF script.first = "mfa" /\ mfa_callback
    THEN [answers |-> <<"mfa", script.second>>, prompts |-> 1,
          written |-> script.second = "ok" /\ script.dump,
          returns |-> script.second = "ok" /\ script.dump]
    ELSE [answers |-> <<script.first>>, prompts |-> 0, written |-> FALSE,
          returns |-> FALSE]

\* What client.login gave: the value returned, and the SDK's answers.
LoginGave(login) == [k |-> "login", returned |-> login.returns, answers |-> login.answers]

\* Faulty variant: the profile's email is saved before the login is looked at.
login_config_eager(success) ==
    IF Truthy(opts.profile) THEN Config_save(config, opts.profile, Email) ELSE config
\* `if not success: raise typer.Exit(2)`, then `if profile: ... config.save()`
login_config(success) ==
    IF success /\ Truthy(opts.profile) THEN Config_save(config, opts.profile, Email)
    ELSE config

\* auth login: client.login, which stores the tokens it obtained, then
\* get_full_name for the report.
auth_login ==
    /\ pc = "auth_login"
    /\ \E script \in LoginScripts, o \in Outcomes("get_full_name") :
         LET dir == get_token_dir(opts.profile)
             login == GarminClient_login(script, TRUE)
             full_name == IF IsExc(o) THEN Null ELSE o
             named == IF login.returns THEN 1 ELSE 0
         IN /\ token_dir' = dir
            /\ disk' = IF login.written THEN [disk EXCEPT ![dir] = "valid"] ELSE disk
            /\ tokens' = IF login.written THEN "valid" ELSE tokens
            /\ files' = IF login.written
                        THEN Append(files, [path |-> Path(dir), data |-> Str("tokens")])
                        ELSE files
            /\ config' = login_config(login.returns)
            /\ calls' = [calls EXCEPT !["login"] = @ + 1,
                                      !["mfa_callback"] = @ + login.prompts,
                                      !["get_full_name"] = @ + named]
            /\ sdk' = [sdk EXCEPT !["login"] = @ + Len(login.answers),
                                  !["get_full_name"] = @ + named]
            /\ loads' = loads + named
            /\ IF ~login.returns
               THEN /\ o = Normal("get_full_name")
                    /\ upstream' = [upstream EXCEPT !["login"] = LoginGave(login)]
                    /\ Propagate(ExitAuth)
                    /\ UNCHANGED <<faults, out>>
               ELSE /\ o # Normal("get_full_name") => faults < MaxFaults
                    /\ upstream' = [upstream EXCEPT !["login"] = LoginGave(login),
                                                    !["get_full_name"] = o]
                    /\ faults' = faults + Fault("get_full_name", o)
                    /\ out' = Append(out, emit(Dict(
                                 [authenticated |-> Bool(TRUE), full_name |-> full_name,
                                  email |-> Email, token_dir |-> Path(dir)])))
                    /\ pc' = "done"
                    /\ UNCHANGED exit_code
    /\ UNCHANGED <<argv, found, passed, state, opts, result, local, answer>>

\* path is dir or lies below it.
Within(dir, path) == Len(dir) <= Len(path) /\ SubSeq(path, 1, Len(dir)) = dir
\* Faulty variant: no directory is removed.
rmtree_kept(stores, dir) == stores
\* shutil.rmtree(dir): the directory goes with everything below it.
rmtree(stores, dir) ==
    [path \in DOMAIN stores |-> IF Within(dir, path) THEN "none" ELSE stores[path]]

\* auth logout: GarminClient.logout removes the token directory.
auth_logout ==
    /\ pc = "auth_logout"
    /\ token_dir' = get_token_dir(opts.profile)
    /\ disk' = rmtree(disk, get_token_dir(opts.profile))
    /\ tokens' = "none"
    /\ out' = Append(out, emit(Dict([authenticated |-> Bool(FALSE)])))
    /\ pc' = "done"
    /\ UNCHANGED <<argv, found, config, passed, state, opts, result, local, calls, sdk, loads,
                   upstream, faults, answer, files, exit_code>>

\* Faulty variant: the report goes on saying authenticated.
status_expired_kept(data) == [error |-> Str("Tokens expired or invalid")] @@ data
\* `except typer.Exit`: the tokens did not load.
status_expired(data) ==
    [authenticated |-> Bool(FALSE), error |-> Str("Tokens expired or invalid")] @@ data

\* auth status: the report, written by output() in the command's own format.
auth_status ==
    /\ pc = "auth_status"
    /\ \E o \in Outcomes("get_full_name") :
         LET data == [authenticated |-> Bool(is_authenticated),
                      token_dir |-> Path(get_token_dir(opts.profile)),
                      config_path |-> Path(<<"config.toml">>)]
             full_name == ClientCall(o)
             report(d) == output(Dict(d), option_format(opts.format), Null, FALSE)
         IN /\ token_dir' = get_token_dir(opts.profile)
            /\ IF ~is_authenticated
               THEN /\ o = Normal("get_full_name")
                    /\ out' = Append(out, report(data))
                    /\ pc' = "done"
                    /\ UNCHANGED <<calls, sdk, loads, upstream, faults, exit_code>>
               ELSE IF IsExc(ensure_authenticated)
               THEN /\ o = Normal("get_full_name")
                    /\ loads' = loads + 1
                    /\ out' = Append(out, report(status_expired(data)))
                    /\ pc' = "done"
                    /\ UNCHANGED <<calls, sdk, upstream, faults, exit_code>>
               ELSE /\ o # Normal("get_full_name") => faults < MaxFaults
                    /\ calls' = [calls EXCEPT !["get_full_name"] = @ + 1]
                    /\ sdk' = [sdk EXCEPT !["get_full_name"] = @ + 1]
                    /\ loads' = loads + 2
                    /\ upstream' = [upstream EXCEPT !["get_full_name"] = full_name]
                    /\ faults' = faults + Fault("get_full_name", o)
                    /\ IF IsExc(full_name)
                       THEN /\ Propagate(full_name)
                            /\ UNCHANGED out
                       ELSE /\ out' = Append(out, report(
                                        [full_name |-> full_name] @@ data))
                            /\ pc' = "done"
                            /\ UNCHANGED exit_code
    /\ UNCHANGED <<argv, disk, found, config, passed, state, opts, tokens, result, local, answer,
                   files>>

\* The auth commands under every global format and profile.
main_auth == Callback(FormatChoices, {Null}, {FALSE}, ProfileChoices, AuthOptions)
\* The read and mutation commands under every global format and profile.
main_data ==
    Callback(FormatChoices, {Null}, {FALSE}, ProfileChoices, Commands \ ContextOptions)
\* context with every section enabled.
main_context ==
    Callback(FormatChoices, {Null}, {FALSE}, {Null},
             {[cmd |-> "context", include_health |-> TRUE, include_stats |-> TRUE,
               include_training |-> TRUE, include_weight |-> TRUE, focus |-> Null]})
\* activities list under every format, field list and header setting.
main_list == Callback(FormatChoices, FieldsChoices, BOOLEAN, {Null}, ListOptions)

NextOptions ==
    \/ main_list
    \/ main_auth
    \/ main_data
    \/ main_context
    \/ list_activities
    \/ auth_login
    \/ auth_logout
    \/ auth_status
    \/ context
    \/ fetch_command
    \/ delete_activity
    \/ delete_weight
    \/ delete_weights_for_date
    \/ upload_activity
    \/ download_activity
    \/ log_weight

SpecOptions == InitOptions /\ [][NextOptions]_vars

(***************************************************************************)
(* One process running command line after command line, as the test        *)
(* runner does with CliRunner.invoke: core.state is the module's single    *)
(* State object, and the token stores and config.toml are on disk, so all  *)
(* three are as the command line before left them.                         *)
(***************************************************************************)
Stores == {"none", "invalid", "valid"}

\* Each profile's token store in a condition of its own.
InitAuth ==
    /\ Fresh
    /\ config = Null
    /\ disk \in {stores \in [TokenDirs -> Stores] : stores[get_token_dir(Null)] = tokens}
    /\ found = Found

\* The next command line of the process.
again ==
    /\ pc = "done"
    /\ pc' = "main"
    /\ found' = Found
    /\ opts' = [cmd |-> "none"]
    /\ result' = <<>>
    /\ local' = <<>>
    /\ calls' = [o \in Ops |-> 0]
    /\ sdk' = [o \in Ops |-> 0]
    /\ loads' = 0
    /\ upstream' = [o \in Ops |-> NotCalled]
    /\ faults' = 0
    /\ answer' = "none"
    /\ out' = <<>>
    /\ files' = <<>>
    /\ exit_code' = EXIT_SUCCESS
    /\ argv' = NoOptions
    /\ token_dir' = <<>>
    /\ passed' = NotCalled
    /\ UNCHANGED <<state, tokens, disk, config>>

\* The auth commands and athlete, with --format, --fields and --profile
\* given or not.
main_again ==
    Callback({"unset", "csv"}, {Null, FieldsStr(<<"activityId">>)}, {FALSE},
             ProfileChoices,
             {command \in AuthOptions : command.format = "unset"} \cup [cmd : {"athlete"}])

NextAuth ==
    \/ main_again
    \/ auth_login
    \/ auth_logout
    \/ auth_status
    \/ fetch_command
    \/ again

SpecAuth == InitAuth /\ [][NextAuth]_vars

(***************************************************************************)
(* Vocabulary of the properties.                                           *)
(***************************************************************************)
Done == pc = "done"
ContextRun == opts.cmd = "context"
ContextDone == ContextRun /\ Done

\* The client call raised (the SDK failed, or authentication did).
Raised(op) == IsExc(upstream[op])

HealthEntries ==
    [heart_rate |-> "get_heart_rates", sleep |-> "get_sleep_data",
     body_battery |-> "get_body_battery", stress |-> "get_stress_data"]
TrainingEntries ==
    [status |-> "get_training_status", readiness |-> "get_training_readiness"]
VO2MaxKeys == {"vo2max_running", "vo2max_cycling"}
WeightKeys == {"current_kg", "body_fat_pct", "muscle_mass_kg"}

\* Section name (as --focus and the flags call it) -> key in the result.
SectionKey ==
    [stats |-> "today_stats", health |-> "health", training |-> "training",
     weight |-> "weight", activities |-> "recent_activities"]
SectionOps ==
    [stats |-> {"get_user_summary"},
     health |-> {"get_heart_rates", "get_sleep_data", "get_body_battery",
                 "get_stress_data"},
     training |-> {"get_training_status", "get_training_readiness", "get_max_metrics"},
     weight |-> {"get_body_composition"},
     activities |-> {"get_activities"}]
ProfileOps == {"get_user_profile", "get_full_name"}
AllKeys ==
    {"profile", "today_stats", "health", "training", "weight", "recent_activities"}

\* The --<section>/--no-<section> flag; activities has none.
Flag(section) ==
    CASE section = "stats" -> opts.include_stats
      [] section = "health" -> opts.include_health
      [] section = "training" -> opts.include_training
      [] section = "weight" -> opts.include_weight
      [] OTHER -> TRUE

Enabled(section) ==
    CASE section = "stats" -> stats_enabled
      [] section = "health" -> health_enabled
      [] section = "training" -> training_enabled
      [] section = "weight" -> weight_enabled
      [] OTHER -> activities_enabled

\* What a health or training entry holds when its fetch gave v.
EntryValue(entry, v) ==
    CASE entry = "heart_rate" -> Caught(heart_rate_body(v), Null)
      [] entry = "sleep" -> Caught(sleep_body(v), Null)
      [] entry = "body_battery" -> Caught(body_battery_body(v), Null)
      [] entry = "stress" -> Caught(stress_body(v), Null)
      [] entry = "status" -> Caught(training_status_body(v), Null)
      [] entry = "readiness" -> Caught(training_readiness_body(v), Null)

\* d has key k holding v.
Holds(d, k, v) == k \in DOMAIN d /\ d[k] = v
\* d and e agree on the keys ks: the same ones present, with the same values.
Agree(d, e, ks) ==
    \A k \in ks : /\ k \in DOMAIN d <=> k \in DOMAIN e
                  /\ k \in DOMAIN d => d[k] = e[k]
\* The section dict stored under key, or the empty one.
Section(key) ==
    IF key \in DOMAIN result /\ result[key].k = "dict" THEN result[key].d ELSE <<>>

(***************************************************************************)
(* C1.  At the end of a context run, every enabled section, and every      *)
(* entry of the health and training sections, whose own fetch did not      *)
(* raise is present and holds the value computed from what its own fetch   *)
(* returned, whichever other fetches raised.                               *)
(***************************************************************************)
C1_OthersUnaffected ==
    ContextDone =>
      /\ (\A op \in ProfileOps : ~Raised(op)) =>
           Holds(result, "profile",
                 Caught(profile_body(upstream["get_user_profile"],
                                     upstream["get_full_name"]), Null))
      /\ (stats_enabled /\ ~Raised("get_user_summary")) =>
           Holds(result, "today_stats",
                 Caught(today_stats_body(upstream["get_user_summary"]), Null))
      /\ health_enabled =>
           /\ "health" \in DOMAIN result /\ result["health"].k = "dict"
           /\ \A e \in DOMAIN HealthEntries :
                ~Raised(HealthEntries[e]) =>
                  Holds(Section("health"), e, EntryValue(e, upstream[HealthEntries[e]]))
      /\ training_enabled =>
           /\ "training" \in DOMAIN result /\ result["training"].k = "dict"
           /\ \A e \in DOMAIN TrainingEntries :
                ~Raised(TrainingEntries[e]) =>
                  Holds(Section("training"), e,
                        EntryValue(e, upstream[TrainingEntries[e]]))
           /\ ~Raised("get_max_metrics") =>
                Agree(Section("training"),
                      Caught(max_metrics_body(upstream["get_max_metrics"]),
                             VO2MaxFallback).d, VO2MaxKeys)
      /\ (weight_enabled /\ ~Raised("get_body_composition")) =>
           Holds(result, "weight",
                 Dict(Caught(body_composition_body(upstream["get_body_composition"]),
                             WeightFallback).d))
      /\ (activities_enabled /\ ~Raised("get_activities")) =>
           Holds(result, "recent_activities",
                 Caught(recent_activities_body(upstream["get_activities"]), List(<<>>)))

\* A run in which the stats and sleep fetches raised and the sections around
\* them are populated.
C1_Witness ==
    /\ ContextDone
    /\ tokens = "valid"
    /\ stats_enabled /\ health_enabled
    /\ Raised("get_user_summary") /\ Raised("get_sleep_data")
    /\ result["profile"] = Caught(profile_body(Normal("get_user_profile"),
                                               Normal("get_full_name")), Null)
    /\ result["profile"].k = "dict"
    /\ Section("health")["heart_rate"].k = "dict"
    /\ Section("health")["stress"].k = "dict"

(***************************************************************************)
(* C2.  As claimed: a section whose fetch raised is recorded as null.      *)
(* Refuted already in authenticated runs, where the SDK operation is the   *)
(* one that raises: health, training and weight stay records, and          *)
(* recent_activities becomes the empty list.                               *)
(***************************************************************************)
Authenticated == tokens = "valid"

C2_Original ==
    (ContextDone /\ Authenticated) =>
      /\ (\E op \in ProfileOps : Raised(op)) => Holds(result, "profile", Null)
      /\ \A s \in DOMAIN SectionKey :
           (Enabled(s) /\ \E op \in SectionOps[s] : Raised(op)) =>
             Holds(result, SectionKey[s], Null)

(***************************************************************************)
(* C2, amended.  When a fetch of an enabled section raises: profile and    *)
(* today_stats are null; health and training remain records in which the   *)
(* entry of the raising fetch is null (both vo2max entries for the max     *)
(* metrics fetch); weight is a record whose three fields are null;         *)
(* recent_activities is the empty list.                                    *)
(***************************************************************************)
C2_FailureRecorded ==
    ContextDone =>
      /\ (\E op \in ProfileOps : Raised(op)) => Holds(result, "profile", Null)
      /\ (stats_enabled /\ Raised("get_user_summary")) =>
           Holds(result, "today_stats", Null)
      /\ health_enabled =>
           /\ "health" \in DOMAIN result /\ result["health"].k = "dict"
           /\ \A e \in DOMAIN HealthEntries :
                Raised(HealthEntries[e]) => Holds(Section("health"), e, Null)
      /\ training_enabled =>
           /\ "training" \in DOMAIN result /\ result["training"].k = "dict"
           /\ \A e \in DOMAIN TrainingEntries :
                Raised(TrainingEntries[e]) => Holds(Section("training"), e, Null)
           /\ Raised("get_max_metrics") =>
                \A k \in VO2MaxKeys : Holds(Section("training"), k, Null)
      /\ (weight_enabled /\ Raised("get_body_composition")) =>
           /\ "weight" \in DOMAIN result /\ result["weight"].k = "dict"
           /\ DOMAIN Section("weight") = WeightKeys
           /\ \A k \in WeightKeys : Section("weight")[k] = Null
      /\ (activities_enabled /\ Raised("get_activities")) =>
           Holds(result, "recent_activities", List(<<>>))

\* The SDK failed for body composition and for the activity list.
C2_Witness ==
    /\ ContextDone
    /\ tokens = "valid"
    /\ weight_enabled /\ activities_enabled
    /\ upstream["get_body_composition"] = Raise
    /\ upstream["get_activities"] = Raise
    /\ result["recent_activities"] = List(<<>>)
    /\ result["weight"] = WeightFallback
    /\ result["profile"] # Null

(***************************************************************************)
(* C3.  The keys of the emitted context result are exactly the enabled     *)
(* sections (profile always, recent_activities unless a focus list omits   *)
(* it), whatever the fetches did; with every flag on and no focus they are *)
(* the six section keys.                                                   *)
(***************************************************************************)
EnabledKeys ==
    {"profile"} \cup {SectionKey[s] : s \in {t \in DOMAIN SectionKey : Enabled(t)}}

C3_KeySet ==
    ContextDone =>
      /\ DOMAIN result = EnabledKeys
      /\ Len(out) = 1 /\ out[1].data = Dict(result)
      /\ (/\ opts.include_stats /\ opts.include_health
          /\ opts.include_training /\ opts.include_weight
          /\ ~FocusGiven(opts.focus)) => DOMAIN result = AllKeys

\* All six keys although two fetches raised.
C3_Witness ==
    /\ ContextDone
    /\ tokens = "valid"
    /\ opts.focus = Null
    /\ Raised("get_activities") /\ Raised("get_heart_rates")
    /\ DOMAIN result = AllKeys
    /\ Len(out) = 1

(***************************************************************************)
(* C4.  As claimed: with --focus the result holds exactly the sections     *)
(* the list names, whatever the flags.  Refuted already in authenticated   *)
(* runs: profile is always there, and a named section switched off by its  *)
(* flag is not.                                                            *)
(***************************************************************************)
NamedKeys == {SectionKey[s] : s \in focus_areas(opts.focus) \cap DOMAIN SectionKey}
NamedOps == UNION {SectionOps[s] : s \in focus_areas(opts.focus) \cap DOMAIN SectionKey}
Fetched == {op \in Ops : calls[op] > 0}

FocusedSections ==
    {s \in focus_areas(opts.focus) \cap DOMAIN SectionKey : Flag(s)}

FlaggedSections == {"stats", "health", "training", "weight"}

C5_FlagOff ==
    ContextRun =>
      \A s \in FlaggedSections :
        ~Flag(s) =>
          /\ SectionKey[s] \notin DOMAIN result
          /\ \A op \in SectionOps[s] : calls[op] = 0 /\ sdk[op] = 0

\* --no-stats --no-health and nothing else: the other sections are fetched.
C5_Witness ==
    /\ ContextDone
    /\ tokens = "valid"
    /\ ~opts.include_stats /\ ~opts.include_health
    /\ opts.include_training /\ opts.include_weight
    /\ opts.focus = Null
    /\ DOMAIN result = {"profile", "training", "weight", "recent_activities"}
    /\ sdk["get_max_metrics"] = 1

(***************************************************************************)
(* C6.  As claimed: every fetch of an enabled section is invoked exactly   *)
(* once.  Refuted already in authenticated runs: get_full_name is not      *)
(* invoked when get_user_profile raised or returned no mapping.            *)
(***************************************************************************)
EnabledOps ==
    {"get_user_profile"}
    \cup UNION {SectionOps[s] : s \in {t \in DOMAIN SectionOps : Enabled(t)}}

C6_Original ==
    (ContextDone /\ Authenticated) =>
      \A op \in EnabledOps \cup ProfileOps : calls[op] = 1

(***************************************************************************)
(* C6, amended.  In a context run every client method of an enabled        *)
(* section is invoked exactly once, whatever the other fetches did, except *)
(* get_full_name, which is invoked exactly once when get_user_profile      *)
(* returned a mapping and not at all otherwise; no method is invoked       *)
(* twice, and the methods of the other sections are not invoked.           *)
(***************************************************************************)
C6_OnceEach ==
    ContextDone =>
      /\ \A op \in EnabledOps :
           calls[op] = 1 /\ sdk[op] = IF Authenticated THEN 1 ELSE 0
      /\ calls["get_full_name"] =
           IF NeedsFullName(upstream["get_user_profile"]) THEN 1 ELSE 0
      /\ \A op \in Ops \ (EnabledOps \cup {"get_full_name"}) : calls[op] = 0

\* get_user_profile raised: get_full_name never ran, the rest ran once each.
C6_Witness ==
    /\ ContextDone
    /\ Authenticated
    /\ upstream["get_user_profile"] = Raise
    /\ calls["get_user_profile"] = 1
    /\ calls["get_full_name"] = 0
    /\ upstream["get_stress_data"] = Raise
    /\ calls["get_stress_data"] = 1
    /\ calls["get_activities"] = 1

(***************************************************************************)
(* C7.  Whatever the fetches of a context run return or raise, the run     *)
(* ends with exit status 0 after handing the assembled result to the       *)
(* output layer exactly once, at its end.                                  *)
(***************************************************************************)
C7_NoEscape ==
    /\ ContextDone =>
         /\ exit_code = EXIT_SUCCESS
         /\ Len(out) = 1
         /\ out[1] = emit(Dict(result))
    /\ (ContextRun /\ ~Done) => out = <<>>

\* Wrongly typed body composition and a null activity, and still one emit.
C7_Witness ==
    /\ ContextDone
    /\ Authenticated
    /\ upstream["get_body_composition"] =
         Dict([weight |-> Num(70500), muscleMass |-> Str("n/a")])
    /\ upstream["get_activities"] = List(<<Null>>)
    /\ exit_code = EXIT_SUCCESS
    /\ Len(out) = 1

(***************************************************************************)
(* C8.  As claimed: a data or mutation command that reaches the client     *)
(* without loadable tokens ends with exit status 2 and writes no payload.  *)
(* The context command violates it: its except clauses swallow the         *)
(* typer.Exit(2) of ensure_authenticated.                                  *)
(***************************************************************************)
MutationCommands ==
    {"activities_delete", "activities_upload", "activities_download",
     "weight_log", "weight_delete", "weight_delete_date"}
DataCommands == {"context"} \cup DOMAIN FetchCommands \cup MutationCommands

C8_Original ==
    (Done /\ opts.cmd \in DataCommands /\ ~Authenticated /\ Fetched # {}) =>
      /\ exit_code = EXIT_AUTH_ERROR
      /\ out = <<>>

(***************************************************************************)
(* C9.  A mutation command that succeeds writes exactly once: with format  *)
(* human the summary string alone, with any other format the structured    *)
(* payload in that format and no summary.                                  *)
(***************************************************************************)
ToFile == opts.cmd = "activities_download" => Truthy(opts.output_path)

C9_DualOutput ==
    (Done /\ opts.cmd \in MutationCommands /\ ToFile /\ exit_code = EXIT_SUCCESS) =>
      /\ Len(out) = 1
      /\ IF state.format = "human"
         THEN /\ DOMAIN out[1] = {"kind", "text"}
              /\ out[1].kind = "text"
              /\ out[1].text.k = "fstr"
         ELSE /\ out[1].kind = "data"
              /\ "text" \notin DOMAIN out[1]
              /\ out[1].format = state.format
              /\ out[1].data.k = "dict"
      /\ opts.cmd = "activities_delete" =>
           IF state.format = "human"
           THEN out[1].text = Format(<<Str("Activity "), opts.target, Str(" deleted")>>)
           ELSE out[1].data = Dict([activity_id |-> opts.target])

\* weight log under human, and under csv.
C9_Witness ==
    /\ Done
    /\ opts.cmd = "weight_log"
    /\ state.format = "human"
    /\ Len(out) = 1
    /\ out[1].kind = "text"
    /\ sdk["add_weigh_in"] = 1

(***************************************************************************)
(* C10.  A delete operation is invoked only with --force or after the      *)
(* reply yes to the prompt; after the reply no the command aborts: no      *)
(* client call, nothing written, non-zero exit status.                     *)
(***************************************************************************)
DeleteCommands == {"activities_delete", "weight_delete", "weight_delete_date"}

C10_ConfirmedDelete ==
    /\ \A op \in DeleteOps :
         (calls[op] > 0 \/ sdk[op] > 0) => (opts.force \/ answer = "yes")
    /\ (Done /\ opts.cmd \in DeleteCommands /\ ~opts.force /\ answer = "no") =>
         /\ \A op \in Ops : calls[op] = 0 /\ sdk[op] = 0
         /\ out = <<>>
         /\ exit_code = EXIT_ERROR

\* The prompt was answered no with valid tokens in place.
C10_Witness ==
    /\ Done
    /\ opts.cmd = "weight_delete_date"
    /\ Authenticated
    /\ ~opts.force
    /\ answer = "no"
    /\ sdk["delete_weigh_ins"] = 0
    /\ exit_code = EXIT_ERROR

(***************************************************************************)
(* Vocabulary of the output properties.                                    *)
(***************************************************************************)
\* The names a --fields value lists: its chunks other than the commas.
FieldNames(fields) == {fields.chunks[i] : i \in 1..Len(fields.chunks)} \ {","}
FieldsOptionGiven == argv.fields.k = "str" /\ argv.fields.chunks # <<>>

\* The command ran to its end with valid tokens and the listing returned
\* a sequence of records.
Listing ==
    /\ Done
    /\ opts.cmd = "activities_list"
    /\ Authenticated
    /\ passed # NotCalled
    /\ upstream[passed.op].k = "list"

\* What the one write of the invocation handed to the output layer.
Written == out[1]
Emitted == Written.data
LinesWritten ==
    line_count(Written.data, Written.format, Written.fields, Written.no_header)

(***************************************************************************)
(* C11.  activities list under json: the document read back has one        *)
(* record per record handed to the output layer, and the key set of each   *)
(* is the names listed by --fields intersected with the keys of that       *)
(* record (all its keys when --fields is absent or empty); a name no       *)
(* record has makes no failure.                                            *)
(***************************************************************************)
C11_FieldProjection ==
    (Listing /\ state.format = "json") =>
      /\ exit_code = EXIT_SUCCESS
      /\ Len(out) = 1
      /\ Written.format = "json"
      /\ LET doc == json_document(Emitted, Written.fields)
         IN /\ doc.k = "list"
            /\ Len(doc.l) = Len(Emitted.l)
            /\ \A i \in 1..Len(doc.l) :
                 DOMAIN doc.l[i].d =
                   IF FieldsOptionGiven
                   THEN FieldNames(argv.fields) \cap DOMAIN Emitted.l[i].d
                   ELSE DOMAIN Emitted.l[i].d
            /\ \A i \in 1..Len(doc.l) :
                 \A key \in DOMAIN doc.l[i].d : doc.l[i].d[key] = Emitted.l[i].d[key]

\* Two fields asked for, one of them in no record.
C11_Witness ==
    /\ Listing
    /\ state.format = "json"
    /\ argv.fields = FieldsStr(<<"activityId", ",", "pace">>)
    /\ Len(Emitted.l) = 2
    /\ Emitted.l[1] = Run
    /\ Emitted.l[2] = Noted
    /\ DOMAIN json_document(Emitted, Written.fields).l[2].d = {"activityId"}

(***************************************************************************)
(* C12.  Under jsonl a sequence of N records (N >= 0) is written as        *)
(* exactly N lines, each a JSON object of its own, and a single record     *)
(* (the athlete command) as exactly one line.                              *)
(***************************************************************************)
C12_JsonLines ==
    /\ (Listing /\ state.format = "jsonl") =>
         /\ exit_code = EXIT_SUCCESS
         /\ Len(out) = 1
         /\ LinesWritten = Len(Emitted.l)
         /\ LET lines == jsonl_lines(Emitted, Written.fields)
            IN \A i \in 1..Len(lines) :
                 /\ lines[i].k = "dict"
                 /\ DOMAIN lines[i].d \subseteq DOMAIN Emitted.l[i].d
    /\ (Done /\ opts.cmd = "athlete" /\ state.format = "jsonl"
        /\ exit_code = EXIT_SUCCESS /\ Len(out) = 1 /\ Emitted.k = "dict") =>
         LinesWritten = 1

\* Two records, one with a newline in a value: two lines.
C12_Witness ==
    /\ Listing
    /\ state.format = "jsonl"
    /\ Len(Emitted.l) = 2
    /\ Emitted.l[2] = Noted
    /\ LinesWritten = 2

(***************************************************************************)
(* Vocabulary of the csv/tsv properties.                                   *)
(***************************************************************************)
Tabular == Listing /\ state.format \in {"csv", "tsv"}
HeaderLines == IF argv.no_header THEN 0 ELSE 1
Columns == columns(Emitted, Written.fields)
Rows == table_rows(Emitted, Written.fields)
\* Some cell that is written holds a newline.
NewlineWritten ==
    \E i \in 1..Len(Rows) : \E c \in 1..Len(Rows[i]) : Count(Rows[i][c].chars, "\n") > 0

SelectedKeys(r) ==
    IF FieldsOptionGiven THEN FieldNames(argv.fields) \cap DOMAIN r.d ELSE DOMAIN r.d
\* Index of the first record holding the key, and the key's place in it.
FirstSeen(key) ==
    CHOOSE i \in 1..Len(Emitted.l) :
      /\ key \in DOMAIN Emitted.l[i].d
      /\ \A j \in 1..(i - 1) : key \notin DOMAIN Emitted.l[j].d
Place(key, r) == CHOOSE n \in 1..Len(r.keys) : r.keys[n] = key

C14_Columns ==
    Tabular =>
      /\ {Columns[c] : c \in 1..Len(Columns)} =
           UNION {SelectedKeys(Emitted.l[i]) : i \in 1..Len(Emitted.l)}
      /\ \A a, b \in 1..Len(Columns) :
           a < b =>
             /\ Columns[a] # Columns[b]
             /\ FirstSeen(Columns[a]) <= FirstSeen(Columns[b])
             /\ FirstSeen(Columns[a]) = FirstSeen(Columns[b]) =>
                  Place(Columns[a], Emitted.l[FirstSeen(Columns[a])])
                    < Place(Columns[b], Emitted.l[FirstSeen(Columns[a])])
      /\ \A i \in 1..Len(Rows) :
           /\ Len(Rows[i]) = Len(Columns)
           /\ \A c \in 1..Len(Columns) :
                IF Columns[c] \in DOMAIN Emitted.l[i].d
                THEN Rows[i][c].of = Emitted.l[i].d[Columns[c]]
                ELSE Rows[i][c].chars = <<>>
      /\ (/\ state.format = "csv"
          /\ argv.fields = FieldsStr(<<"activityId">>)
          /\ ~argv.no_header
          /\ Len(Emitted.l) = 2 /\ Emitted.l[1] = Run /\ Emitted.l[2] = Bare) =>
           /\ Columns = <<"activityId">>
           /\ Rows[1][1].of = Num(1)
           /\ Rows[2][1].of = Num(2)
           /\ LinesWritten = 3

\* No field list: the second record brings the columns of the first in
\* another order and a new one, and the first has an empty cell there.
C14_Witness ==
    /\ Tabular
    /\ ~FieldsOptionGiven
    /\ Len(Emitted.l) = 2
    /\ Emitted.l[1] = Run
    /\ Emitted.l[2] = Noted
    /\ Columns = <<"activityId", "activityName", "distance">>
    /\ Rows[1][3].chars = <<>>

(***************************************************************************)
(* C19.  As claimed: without --format the output is written in             *)
(* defaults.format of config.toml, and without --limit the listing asks    *)
(* for defaults.limit records.  The code never consults the loaded         *)
(* defaults: the option defaults are the constants json and 30.            *)
(***************************************************************************)
UndatedListing == Listing /\ passed.op = "get_activities"

C19_Original ==
    /\ (Listing /\ argv.format = "unset") =>
         Str(Written.format) = Config_load(config).format
    /\ (UndatedListing /\ opts.limit.k = "null") =>
         passed.limit = Config_load(config).limit

(***************************************************************************)
(* C20.  activities list: without --after and --before the client's        *)
(* get_activities is called once with the given start and limit (0 and 30  *)
(* when not given) and its result is emitted as it is; with --after or     *)
(* --before get_activities_by_date is called once and the first limit      *)
(* records of its result are emitted in upstream order, never more than    *)
(* limit.                                                                  *)
(***************************************************************************)
GivenLimit == IF opts.limit.k = "null" THEN Num(DEFAULT_LIMIT) ELSE opts.limit
GivenStart == IF opts.start.k = "null" THEN Num(DEFAULT_START) ELSE opts.start
Dated == opts.after.k = "str" \/ opts.before.k = "str"

C17_Original == loads <= 1

(***************************************************************************)
(* C18.  In a context run the fetches start one at a time in the order     *)
(* profile, stats, heart rate, sleep, body battery, stress, training       *)
(* status, training readiness, max metrics, weight, activities: when a     *)
(* fetch starts, every enabled fetch before it in that order has been      *)
(* invoked once and has returned or raised, none after it has started,     *)
(* and the fetch itself has returned or raised by the end of the step;     *)
(* at the end of the run every enabled fetch has been invoked, whichever   *)
(* of them raised.                                                         *)
(***************************************************************************)
FetchOrder ==
    <<"get_user_profile", "get_user_summary", "get_heart_rates", "get_sleep_data",
      "get_body_battery", "get_stress_data", "get_training_status",
      "get_training_readiness", "get_max_metrics", "get_body_composition",
      "get_activities">>

StartsFetch(i) == calls'[FetchOrder[i]] # calls[FetchOrder[i]]

C18_InOrder ==
    /\ [](ContextDone =>
            \A i \in 1..Len(FetchOrder) :
               FetchOrder[i] \in EnabledOps => calls[FetchOrder[i]] = 1)
    /\ [][ContextRun =>
         \A i \in 1..Len(FetchOrder) :
            StartsFetch(i) =>
              /\ calls[FetchOrder[i]] = 0
              /\ calls'[FetchOrder[i]] = 1
              /\ upstream'[FetchOrder[i]] # NotCalled
              /\ \A j \in 1..(i - 1) :
                   IF FetchOrder[j] \in EnabledOps
                   THEN calls[FetchOrder[j]] = 1 /\ upstream[FetchOrder[j]] # NotCalled
                   ELSE calls[FetchOrder[j]] = 0
              /\ \A j \in (i + 1)..Len(FetchOrder) : calls'[FetchOrder[j]] = 0]_vars

\* The stress fetch is about to start after the sleep fetch raised and the
\* body battery fetch ran.
C18_Witness ==
    /\ ContextRun
    /\ pc = "context.stress"
    /\ Authenticated
    /\ upstream["get_sleep_data"] = Raise
    /\ calls["get_body_battery"] = 1
    /\ calls["get_stress_data"] = 0

(***************************************************************************)
(* C15.  As claimed: whatever a command writes is in the encoding selected *)
(* by the global --format option, json when it is not given.  auth status  *)
(* writes in its own --format, and activities download without --output    *)
(* writes the file's bytes.                                                *)
(***************************************************************************)
Encoding(w) ==
    CASE w.kind = "raw" -> "raw"
      [] w.kind = "text" -> "human"
      [] OTHER -> w.format
GlobalFormat == IF argv.format = "unset" THEN "json" ELSE argv.format
OwnFormat == IF opts.format = "unset" THEN "json" ELSE opts.format
RawDownload == opts.cmd = "activities_download" /\ opts.output_path = Null

C15_Original == \A i \in 1..Len(out) : Encoding(out[i]) = GlobalFormat

(***************************************************************************)
(* C15, amended.  Every command writes its output in the encoding selected *)
(* by the global --format option (json when not given), except auth        *)
(* status, which writes in the format of its own --format option (json     *)
(* when not given), and activities download without --output, which        *)
(* writes the downloaded bytes unencoded.                                  *)
(***************************************************************************)
C15_GlobalFormat ==
    \A i \in 1..Len(out) :
       IF opts.cmd = "auth_status" THEN Encoding(out[i]) = OwnFormat
       ELSE IF RawDownload THEN Encoding(out[i]) = "raw"
       ELSE Encoding(out[i]) = GlobalFormat

\* --format csv auth status: the report is written as json.
C15_Witness ==
    /\ Done
    /\ opts.cmd = "auth_status"
    /\ argv.format = "csv"
    /\ opts.format = "unset"
    /\ Len(out) = 1
    /\ Encoding(out[1]) = "json"

(***************************************************************************)
(* C16.  As claimed: the token directory a command reads or clears is the  *)
(* one of the profile named by the global --profile option.  The auth      *)
(* commands take the profile from their own --profile option and never     *)
(* look at the global one.                                                 *)
(***************************************************************************)
C16_Original == token_dir # <<>> => token_dir = get_token_dir(argv.profile)

(***************************************************************************)
(* C24.  As claimed: whenever the context result has a training section    *)
(* its keys are exactly status, readiness, vo2max_running, vo2max_cycling, *)
(* and whenever it has a weight section its keys are exactly current_kg,   *)
(* body_fat_pct, muscle_mass_kg.  A fetch that returns None or an empty    *)
(* mapping leaves the keys of its `if` body out.                           *)
(***************************************************************************)
TrainingKeys == {"status", "readiness", "vo2max_running", "vo2max_cycling"}

C24_Original ==
    ContextDone =>
      /\ "training" \in DOMAIN result => DOMAIN Section("training") = TrainingKeys
      /\ "weight" \in DOMAIN result => DOMAIN Section("weight") = WeightKeys

(***************************************************************************)
(* C28.  GarminClient reaches the SDK only through a successful            *)
(* ensure_authenticated: while the token file is missing or fails to load  *)
(* no SDK operation has been invoked, and every client method the handler  *)
(* invoked raised Exit(2); with loadable tokens every invoked method       *)
(* reached its SDK operation once per invocation.  A pass-through or       *)
(* mutation command ends with exit status 2 in the first case.             *)
(***************************************************************************)
C28_AuthFirst ==
    /\ \A op \in Ops :
         IF Authenticated
         THEN sdk[op] = calls[op]
         ELSE sdk[op] = 0 /\ (calls[op] > 0 => upstream[op] = ExitAuth)
    /\ (Done /\ ~Authenticated /\ ~ContextRun /\ Fetched # {}) =>
         exit_code = EXIT_AUTH_ERROR /\ out = <<>> /\ files = <<>>

\* A delete confirmed by --force with a token file that does not load.
C28_Witness ==
    /\ Done
    /\ tokens = "invalid"
    /\ opts.cmd = "activities_delete"
    /\ opts.force
    /\ calls["delete_activity"] = 1
    /\ sdk["delete_activity"] = 0
    /\ exit_code = EXIT_AUTH_ERROR

(***************************************************************************)
(* C29.  An invocation with both --verbose and --quiet ends with exit      *)
(* status 1 in the global callback: no command is dispatched, no client    *)
(* method and no SDK operation is invoked, no token is loaded, nothing is  *)
(* written, and core.state keeps the values it had.                        *)
(***************************************************************************)
C29_Conflict ==
    (argv.verbose /\ argv.quiet) =>
      /\ Done
      /\ exit_code = EXIT_ERROR
      /\ opts.cmd = "none"
      /\ \A op \in Ops : calls[op] = 0 /\ sdk[op] = 0
      /\ loads = 0
      /\ token_dir = <<>>
      /\ out = <<>>
      /\ files = <<>>
      /\ state = State

\* Both flags together with a format and a profile that were not stored.
C29_Witness ==
    /\ argv.verbose /\ argv.quiet
    /\ argv.format = "csv"
    /\ argv.profile = Str("work")
    /\ Done
    /\ exit_code = EXIT_ERROR
    /\ state.format = "json"
    /\ state.profile = Null

(***************************************************************************)
(* C30.  Every context run attempts the profile fetch once and ends with   *)
(* the key profile in the result, whatever the section flags and the       *)
(* focus list are, also when the focus list names other sections only and  *)
(* when the fetch raised.                                                  *)
(***************************************************************************)
C30_ProfileAlways ==
    /\ ContextDone => "profile" \in DOMAIN result /\ calls["get_user_profile"] = 1
    /\ (ContextRun /\ pc # "context.profile") =>
         "profile" \in DOMAIN result /\ calls["get_user_profile"] = 1

\* --focus sleep with the profile fetch raising: profile is there, as null.
C30_Witness ==
    /\ ContextDone
    /\ opts.focus = FocusStr(<<"sleep">>)
    /\ "profile" \notin focus_areas(opts.focus)
    /\ upstream["get_user_profile"] = Raise
    /\ calls["get_user_profile"] = 1
    /\ result["profile"] = Null

(***************************************************************************)
(* Vocabulary of the auth properties.                                      *)
(***************************************************************************)
LoggedOut == Done /\ opts.cmd = "auth_logout"
LoginRun == Done /\ opts.cmd = "auth_login"
StatusRun == Done /\ opts.cmd = "auth_status"
\* The profile the auth command names, and its token directory.
OwnDir == get_token_dir(opts.profile)
\* is_authenticated of a client for the directory: the token file exists.
HasTokens(stores, dir) == stores[dir] # "none"
\* The record the command wrote.
Report == out[1].data.d

(***************************************************************************)
(* C21.  After auth logout for a profile (the one its --profile option     *)
(* names) that profile has no tokens, the command has ended with exit      *)
(* status 0 and written authenticated=false once, whether or not tokens    *)
(* existed before; a logout that follows a logout of the same profile      *)
(* leaves the token stores and config.toml as the first one left them.     *)
(***************************************************************************)
C21_Logout ==
    LoggedOut =>
      /\ ~HasTokens(disk, OwnDir)
      /\ tokens = "none"
      /\ exit_code = EXIT_SUCCESS
      /\ out = <<emit(Dict([authenticated |-> Bool(FALSE)]))>>
      /\ config = found.config
      /\ found.ran = opts => disk = found.disk

\* The second of two logouts of profile work.
C21_Witness ==
    /\ LoggedOut
    /\ opts.profile = Str("work")
    /\ found.ran = opts
    /\ ~HasTokens(found.disk, OwnDir)
    /\ HasTokens(disk, get_token_dir(Null))
    /\ exit_code = EXIT_SUCCESS

(***************************************************************************)
(* C22.  auth status writes authenticated=true only when the token file    *)
(* exists and the tokens loaded; without a token file it writes            *)
(* authenticated=false, without an error field, exits 0 and has called     *)
(* neither the client's data methods nor the SDK; with a token file that   *)
(* fails to load it writes authenticated=false with an error field and     *)
(* exits 0.                                                                *)
(***************************************************************************)
C22_Status ==
    StatusRun =>
      /\ tokens = "none" =>
           /\ exit_code = EXIT_SUCCESS
           /\ Len(out) = 1
           /\ Report["authenticated"] = Bool(FALSE)
           /\ "error" \notin DOMAIN Report
           /\ \A op \in Ops : calls[op] = 0 /\ sdk[op] = 0
           /\ loads = 0
      /\ tokens = "invalid" =>
           /\ exit_code = EXIT_SUCCESS
           /\ Len(out) = 1
           /\ Report["authenticated"] = Bool(FALSE)
           /\ "error" \in DOMAIN Report
           /\ \A op \in Ops : sdk[op] = 0
      /\ (Len(out) = 1 /\ Report["authenticated"] = Bool(TRUE)) =>
           /\ tokens = "valid"
           /\ loads > 0
           /\ "full_name" \in DOMAIN Report

\* A token file that does not load, reported in the command's own format.
C22_Witness ==
    /\ StatusRun
    /\ tokens = "invalid"
    /\ opts.format = "human"
    /\ Len(out) = 1
    /\ Report["authenticated"] = Bool(FALSE)
    /\ Report["error"] = Str("Tokens expired or invalid")
    /\ exit_code = EXIT_SUCCESS

(***************************************************************************)
(* C23.  In a process that runs command line after command line, a handler *)
(* finds in core.state exactly what the global options of its own command  *)
(* line say (the defaults for those not given), whatever the earlier       *)
(* command lines left there, and no step after the global callback         *)
(* changes core.state.                                                     *)
(***************************************************************************)
InHandler == pc \notin {"main", "done"}

StateOf(given) ==
    [format |-> IF given.format = "unset" THEN "json" ELSE given.format,
     fields |-> IF given.fields = Null \/ given.fields.chunks = <<>> THEN Null
                ELSE List(Split(given.fields.chunks)),
     no_header |-> given.no_header, verbose |-> given.verbose, quiet |-> given.quiet,
     config_path |-> Null, profile |-> given.profile]

C23_OwnOptions ==
    /\ [](InHandler => state = StateOf(argv))
    /\ [][pc # "main" => state' = state]_vars

\* A handler of a command line without global options, after one that gave
\* --format, --fields and --profile.
C23_Witness ==
    /\ InHandler
    /\ found.state.format = "csv"
    /\ found.state.fields # Null
    /\ found.state.profile = Str("work")
    /\ argv = NoOptions
    /\ state = State

(***************************************************************************)
(* C25.  As claimed: a logout leaves is_authenticated of every other       *)
(* profile as it was.  The default profile's token directory is the parent *)
(* of every named profile's, and logout removes the directory tree.        *)
(***************************************************************************)
C25_Original ==
    LoggedOut =>
      \A dir \in TokenDirs \ {OwnDir} : HasTokens(disk, dir) = HasTokens(found.disk, dir)

(***************************************************************************)
(* C26.  auth login calls GarminClient.login once; it makes one or two SDK *)
(* login attempts and prompts for the MFA code at most once; a second      *)
(* attempt is made only after the first one failed asking for MFA, and     *)
(* after the prompt; tokens are written only when the last attempt         *)
(* succeeded, into the profile's directory, and login returns True         *)
(* exactly when they were written.                                         *)
(***************************************************************************)
Login == upstream["login"]
TokensWritten == files # <<>>

C26_Login ==
    LoginRun =>
      /\ calls["login"] = 1
      /\ sdk["login"] = Len(Login.answers)
      /\ sdk["login"] \in {1, 2}
      /\ calls["mfa_callback"] \in {0, 1}
      /\ sdk["login"] = 2 <=> Login.answers[1] = "mfa"
      /\ sdk["login"] = 2 <=> calls["mfa_callback"] = 1
      /\ TokensWritten =>
           /\ Login.answers[Len(Login.answers)] = "ok"
           /\ files = <<[path |-> Path(OwnDir), data |-> Str("tokens")]>>
           /\ disk[OwnDir] = "valid"
      /\ Login.returned <=> TokensWritten
      /\ Login.returned <=> exit_code = EXIT_SUCCESS

\* MFA asked for, the code prompted once, the second attempt succeeds.
C26_Witness ==
    /\ LoginRun
    /\ Login.answers = <<"mfa", "ok">>
    /\ calls["mfa_callback"] = 1
    /\ Login.returned
    /\ found.disk[OwnDir] = "none"
    /\ disk[OwnDir] = "valid"

(***************************************************************************)
(* C27.  An auth login that ends with exit status 2 has written no tokens  *)
(* and nothing on the output stream, and leaves every profile's token      *)
(* store and config.toml as it found them; config.toml changes only in a   *)
(* login that succeeded.                                                   *)
(***************************************************************************)
C27_FailedLogin ==
    /\ (LoginRun /\ exit_code = EXIT_AUTH_ERROR) =>
         /\ disk = found.disk
         /\ config = found.config
         /\ ~TokensWritten
         /\ out = <<>>
    /\ (LoginRun /\ config # found.config) => Login.returned

\* Login for profile work fails at the MFA attempt; the stored tokens stay.
C27_Witness ==
    /\ LoginRun
    /\ exit_code = EXIT_AUTH_ERROR
    /\ opts.profile = Str("work")
    /\ Login.answers = <<"mfa", "error">>
    /\ found.disk[OwnDir] = "valid"
    /\ disk[OwnDir] = "valid"
    /\ config = Null

====
